---- MODULE Spec2Model ----
(***************************************************************************)
(* A model of the MSIL -> Game Boy compiler: the cartridge assembler       *)
(* (services/rom_builder.py), the instruction emitter                      *)
(* (codegen/instruction_emitter.py) and the code generator                 *)
(* (services/code_generator.py) driven as main.py drives them.             *)
(*                                                                         *)
(* A Python bytes / bytearray object is a sequence of numbers 0..255; the  *)
(* byte at address a of an image is element a + 1 of the sequence.         *)
(***************************************************************************)
EXTENDS Integers, Sequences, FiniteSets, TLC

VARIABLES
    code,             \* machine code: CodeGenerator.generate's return value, RomBuilder.build's argument
    config,           \* RomBuilder.build: the config argument of the last call
    result,           \* RomBuilder.build: outcome of the last call (image or exception)
    emitter,          \* an InstructionEmitter: code, labels, label_refs
    em_result,        \* outcome of the last InstructionEmitter call
    has_hello_world,  \* CodeGenerator.has_hello_world
    method_addresses, \* CodeGenerator.method_addresses
    ir_module,        \* the IrModule of the last CodeGenerator.generate call
    pc,               \* main.py: "idle", or "generated" between generate and build
    gen_calls,        \* generate calls made on the CodeGenerator since its construction
    first_run,        \* history: input and image of the first run that returned an image
    assembly_data,    \* assembly.__data__: the bytes of the assembly file
    method_def,       \* a MethodDef row: its Rva and the file offset the Rva resolves to
    il_body,          \* MsilReader.get_method_body: outcome of the last call
    il_cursor,        \* IrBuilder._parse_il_body: the cursor i when the loop ends
    ir_method,        \* an IrMethod: IrBuilder's output, CodeGenerator._generate_method's input
    method_rows,      \* msil_reader.get_all_methods(assembly): the MethodDef rows in table order
    type_defs,        \* the types of the assembly, by full name
    type_cache,       \* TypeResolver.type_cache
    type_result       \* TypeResolver.resolve_type: the last query and its outcome

rom_vars == <<code, config, result>>
emitter_vars == <<emitter, em_result>>
generator_vars == <<has_hello_world, method_addresses, ir_module>>
main_vars == <<pc, gen_calls, first_run>>
reader_vars == <<assembly_data, method_def, il_body, il_cursor>>
front_vars == <<assembly_data, method_def, il_body, il_cursor, ir_method, method_rows>>
type_vars == <<type_defs, type_cache, type_result>>

vars == <<code, config, result, emitter, em_result, has_hello_world,
          method_addresses, ir_module, pc, gen_calls, first_run,
          assembly_data, method_def, il_body, il_cursor, ir_method, method_rows,
          type_defs, type_cache, type_result>>

(***************************************************************************)
(* Bounds of the model.                                                    *)
(***************************************************************************)
MaxCodeLen == 3      \* short code strings have 0..MaxCodeLen bytes
MaxOver == 1         \* long code strings exceed the 32 KiB image by 0..MaxOver bytes
MaxTitleLen == 2     \* enumerated titles have 0..MaxTitleLen characters
MaxChunks == 2       \* an emitter receives at most MaxChunks emit / emit_bytes calls
MaxRefs == 1         \* an emitter receives at most MaxRefs reference_label calls
MaxRuns == 3         \* a CodeGenerator serves at most MaxRuns compilations
MaxIlLen == 4        \* enumerated method bodies declare and hold 0..MaxIlLen bytes of IL
MaxBodyLen == 4      \* lowered method bodies have 0..MaxBodyLen IR instructions
MaxLowerLen == 2     \* methods lowered one instruction at a time have 0..MaxLowerLen instructions
MaxMethods == 3      \* a method table has 0..MaxMethods rows
MaxFields == 3       \* class A declares 0..MaxFields fields
RecursionLimit == 6  \* frames of resolve_type the call stack holds before the interpreter gives up

(***************************************************************************)
(* Python integer and bytes primitives.                                    *)
(***************************************************************************)
Byte == 0..255

\* x & 0xFF on a Python int (two's complement of unbounded width)
And_0xFF(x) == x % 256

\* x & 0xFFFF
And_0xFFFF(x) == x % 65536

\* x >> k for k >= 0 (floor division by 2^k)
ShiftRight(x, k) == x \div (2 ^ k)

\* a | b for non-negative a, b
RECURSIVE BitOr(_, _)
BitOr(a, b) ==
    IF a = 0 THEN b
    ELSE IF b = 0 THEN a
    ELSE (IF a % 2 = 1 \/ b % 2 = 1 THEN 1 ELSE 0) + 2 * BitOr(a \div 2, b \div 2)

\* bytes([b] * n): a sequence of n copies of b
Repeat(b, n) == SubSeq([i \in 1..n |-> b], 1, n)

\* rom[addr], addr a 0-based index within the buffer
At(rom, addr) == rom[addr + 1]

\* rom[addr] = value on a bytearray
SetByte(rom, addr, value) == [rom EXCEPT ![addr + 1] = value]

\* rom[start:start + len(data)] = data on a bytearray (Python slice
\* assignment: the slice is clipped to the buffer, so the buffer grows when
\* data runs past its end)
SliceAssign(rom, start, data) ==
    SubSeq(rom, 1, start) \o data \o SubSeq(rom, start + Len(data) + 1, Len(rom))

\* data[:n]
Prefix(data, n) == SubSeq(data, 1, IF Len(data) < n THEN Len(data) ELSE n)

(***************************************************************************)
(* str.upper() and str.encode('ascii', errors='ignore') on a title.  A     *)
(* string is a sequence of Unicode code points.  upper_char covers the     *)
(* code points U+0000..U+00FF and U+0131, the ones titles are drawn from.  *)
(***************************************************************************)
upper_char(c) ==
    IF c \in 97..122 THEN <<c - 32>>                    \* a..z -> A..Z
    ELSE IF c = 181 THEN <<924>>                        \* micro sign -> GREEK CAPITAL MU
    ELSE IF c = 223 THEN <<83, 83>>                     \* sharp s -> "SS"
    ELSE IF c \in 224..254 /\ c # 247 THEN <<c - 32>>   \* Latin-1 small letters
    ELSE IF c = 255 THEN <<376>>                        \* y diaeresis -> U+0178
    ELSE IF c = 305 THEN <<73>>                         \* dotless i -> "I"
    ELSE <<c>>

RECURSIVE upper(_)
upper(s) == IF s = <<>> THEN <<>> ELSE upper_char(Head(s)) \o upper(Tail(s))

IsAscii(c) == c <= 127

encode_ascii_ignore(s) == SelectSeq(s, IsAscii)

(***************************************************************************)
(* models/rom_header.py                                                    *)
(***************************************************************************)
nintendo_logo ==
    <<206, 237, 102, 102, 204, 13, 0, 11, 3, 115, 0, 131, 0, 12, 0, 13,
      0, 8, 17, 31, 136, 137, 0, 14, 220, 204, 110, 230, 221, 221, 217, 153,
      187, 187, 103, 99, 110, 14, 236, 204, 221, 220, 153, 159, 187, 185, 51, 62>>

RomHeader(title, cartridge_type, rom_size) ==
    [ nintendo_logo     |-> nintendo_logo,
      title             |-> title,
      cgb_flag          |-> 0,
      new_licensee_code |-> <<0, 0>>,
      sgb_flag          |-> 0,
      cartridge_type    |-> cartridge_type,
      rom_size          |-> rom_size,
      ram_size          |-> 0,
      destination_code  |-> 0,
      old_licensee_code |-> 0,
      mask_rom_version  |-> 0 ]

(***************************************************************************)
(* runtime/runtime_library.py: the bytes the four routines encode to.      *)
(***************************************************************************)
get_multiplication_16 == <<209, 225, 197, 1, 0, 0, 122, 179, 40, 8, 96, 105, 193, 229, 201>>
get_division_16 == <<209, 225, 197, 122, 179, 40, 4, 193, 229, 201>>
get_memcpy == <<193, 209, 225, 120, 177, 200, 42, 18, 19, 11, 120, 177, 32, 246, 201>>
get_memset == <<193, 241, 225, 120, 177, 200, 34, 11, 120, 177, 32, 248, 201>>

\* RuntimeLibrary.MUL_16_ADDR and DIV_16_ADDR
MUL_16_ADDR == 512          \* 0x0200
DIV_16_ADDR == 544          \* 0x0220

get_all_runtime == get_multiplication_16 \o get_division_16 \o get_memcpy \o get_memset

(***************************************************************************)
(* services/rom_builder.py                                                 *)
(***************************************************************************)
CODE_START == 336           \* 0x0150
MIN_ROM_SIZE == 32768       \* 32 * 1024

DEFAULT_TITLE == <<72, 69, 76, 76, 79, 32, 87, 79, 82, 76, 68>>   \* 'HELLO WORLD'

\* config.get(key, default) on a dict
dict_get(d, key, default) == IF key \in DOMAIN d THEN d[key] ELSE default

\* mutant: the decrement before the bit smearing is left out
_round_up_to_power_of_2_no_decrement(n) ==
    IF n <= 0 THEN 1
    ELSE LET n1 == BitOr(n, ShiftRight(n, 1))
             n2 == BitOr(n1, ShiftRight(n1, 2))
             n3 == BitOr(n2, ShiftRight(n2, 4))
             n4 == BitOr(n3, ShiftRight(n3, 8))
             n5 == BitOr(n4, ShiftRight(n4, 16))
         IN  n5 + 1

_round_up_to_power_of_2(n) ==
    IF n <= 0 THEN 1
    ELSE LET n0 == n - 1
             n1 == BitOr(n0, ShiftRight(n0, 1))
             n2 == BitOr(n1, ShiftRight(n1, 2))
             n3 == BitOr(n2, ShiftRight(n2, 4))
             n4 == BitOr(n3, ShiftRight(n3, 8))
             n5 == BitOr(n4, ShiftRight(n4, 16))
         IN  n5 + 1

_add_runtime(c) == get_all_runtime \o c

\* the title area cleared: for i in range(0x0134, 0x0144): rom[i] = 0x00
RECURSIVE ClearRange(_, _, _)
ClearRange(rom, lo, hi) ==
    IF lo >= hi THEN rom ELSE ClearRange(SetByte(rom, lo, 0), lo + 1, hi)

\* mutant: the boot entry jumps to 0x0100 instead of 0x0150
_write_header_jump_0100(rom, header) ==
    LET r1  == SetByte(SetByte(SetByte(SetByte(rom, 256, 0), 257, 195), 258, 0), 259, 1)
        r2  == SliceAssign(r1, 260, header.nintendo_logo)
        title_bytes == Prefix(encode_ascii_ignore(upper(header.title)), 16)
        r4  == SliceAssign(ClearRange(r2, 308, 324), 308, title_bytes)
        r6  == SliceAssign(SetByte(r4, 323, header.cgb_flag), 324, Prefix(header.new_licensee_code, 2))
        r9  == SetByte(SetByte(SetByte(r6, 326, header.sgb_flag), 327, header.cartridge_type), 328, header.rom_size)
        r12 == SetByte(SetByte(SetByte(r9, 329, header.ram_size), 330, header.destination_code), 331, header.old_licensee_code)
    IN  SetByte(r12, 332, header.mask_rom_version)

\* mutant: the title is written (and its area cleared) four bytes early, at 0x0130
_write_header_title_0130(rom, header) ==
    LET r1  == SetByte(SetByte(SetByte(SetByte(rom, 256, 0), 257, 195), 258, 80), 259, 1)
        r2  == SliceAssign(r1, 260, header.nintendo_logo)
        title_bytes == Prefix(encode_ascii_ignore(upper(header.title)), 16)
        r4  == SliceAssign(ClearRange(r2, 304, 320), 304, title_bytes)
        r6  == SliceAssign(SetByte(r4, 323, header.cgb_flag), 324, Prefix(header.new_licensee_code, 2))
        r9  == SetByte(SetByte(SetByte(r6, 326, header.sgb_flag), 327, header.cartridge_type), 328, header.rom_size)
        r12 == SetByte(SetByte(SetByte(r9, 329, header.ram_size), 330, header.destination_code), 331, header.old_licensee_code)
    IN  SetByte(r12, 332, header.mask_rom_version)

_write_header(rom, header) ==
    LET r1  == SetByte(SetByte(SetByte(SetByte(rom, 256, 0), 257, 195), 258, 80), 259, 1)
        logo == header.nintendo_logo
        r2  == SliceAssign(r1, 260, logo)
        title_bytes == Prefix(encode_ascii_ignore(upper(header.title)), 16)
        r3  == ClearRange(r2, 308, 324)
        r4  == SliceAssign(r3, 308, title_bytes)
        r5  == SetByte(r4, 323, header.cgb_flag)
        r6  == SliceAssign(r5, 324, Prefix(header.new_licensee_code, 2))
        r7  == SetByte(r6, 326, header.sgb_flag)
        r8  == SetByte(r7, 327, header.cartridge_type)
        r9  == SetByte(r8, 328, header.rom_size)
        r10 == SetByte(r9, 329, header.ram_size)
        r11 == SetByte(r10, 330, header.destination_code)
        r12 == SetByte(r11, 331, header.old_licensee_code)
    IN  SetByte(r12, 332, header.mask_rom_version)

\* storing into a bytearray raises ValueError unless the value is in range(256);
\* cartridge_type and rom_size are the header fields that come from the config
header_stores_valid(header) ==
    header.cartridge_type \in Byte /\ header.rom_size \in Byte

\* mutant: the "- 1" of each step of the header checksum is left out
RECURSIVE header_checksum_loop_no_decrement(_, _, _, _)
header_checksum_loop_no_decrement(rom, i, hi, checksum) ==
    IF i >= hi THEN checksum
    ELSE header_checksum_loop_no_decrement(rom, i + 1, hi, checksum - At(rom, i))

\* checksum = 0; for i in range(lo, hi): checksum = checksum - rom[i] - 1
RECURSIVE header_checksum_loop(_, _, _, _)
header_checksum_loop(rom, i, hi, checksum) ==
    IF i >= hi THEN checksum
    ELSE header_checksum_loop(rom, i + 1, hi, checksum - At(rom, i) - 1)

\* global_sum over range(lo, hi + 1), skipping 0x014E and 0x014F (the sum of
\* the loop, split in halves to bound the depth of the evaluation)
RECURSIVE global_sum_loop(_, _, _)
global_sum_loop(rom, lo, hi) ==
    IF lo > hi THEN 0
    ELSE IF lo = hi THEN (IF lo = 334 \/ lo = 335 THEN 0 ELSE At(rom, lo))
    ELSE LET mid == (lo + hi) \div 2
         IN  global_sum_loop(rom, lo, mid) + global_sum_loop(rom, mid + 1, hi)

\* mutant: the global checksum is stored high byte first
_write_checksums_big_endian(rom, header) ==
    LET checksum   == And_0xFF(header_checksum_loop(rom, 308, 333, 0))
        r1         == SetByte(rom, 333, checksum)
        global_sum == And_0xFFFF(global_sum_loop(r1, 0, Len(r1) - 1))
        r2         == SetByte(r1, 334, And_0xFF(ShiftRight(global_sum, 8)))
    IN  SetByte(r2, 335, And_0xFF(global_sum))

_write_checksums(rom, header) ==
    LET checksum   == And_0xFF(header_checksum_loop(rom, 308, 333, 0))
        r1         == SetByte(rom, 333, checksum)
        global_sum == And_0xFFFF(global_sum_loop(r1, 0, Len(r1) - 1))
        r2         == SetByte(r1, 334, And_0xFF(global_sum))
    IN  SetByte(r2, 335, And_0xFF(ShiftRight(global_sum, 8)))

\* the code the image is sized for and that is copied into it
final_code_of(c, cfg) ==
    IF dict_get(cfg, "skip_runtime", TRUE) THEN c ELSE _add_runtime(c)

\* rom_size = max(MIN_ROM_SIZE, _round_up_to_power_of_2(len(final_code) + CODE_START))
rom_size_of(final_code) ==
    LET p == _round_up_to_power_of_2(Len(final_code) + CODE_START)
    IN  IF MIN_ROM_SIZE >= p THEN MIN_ROM_SIZE ELSE p

\* the interrupt vectors: rom[0..3] = 00 C3 00 01
write_vectors(rom) ==
    SetByte(SetByte(SetByte(SetByte(rom, 0, 0), 1, 195), 2, 0), 3, 1)

\* mutant: the buffer is left as bytearray(rom_size) made it, all zero
fill_rom_zero(rom_size) == Repeat(0, rom_size)

\* rom = bytearray(rom_size); for i in range(len(rom)): rom[i] = 0xFF
fill_rom(rom_size) == Repeat(255, rom_size)

Returned(image) == [status |-> "ok", image |-> image]
Raised(exc) == [status |-> exc, image |-> <<>>]

build(c, cfg) ==
    LET title      == dict_get(cfg, "title", DEFAULT_TITLE)
        header     == RomHeader(title,
                                dict_get(cfg, "cartridge_type", 0),
                                dict_get(cfg, "rom_size", 0))
        final_code == final_code_of(c, cfg)
        rom_size   == rom_size_of(final_code)
        rom0       == fill_rom(rom_size)
        rom1       == write_vectors(rom0)
        rom2       == _write_header(rom1, header)
        rom3       == SliceAssign(rom2, CODE_START, final_code)
    IN  IF ~header_stores_valid(header) THEN Raised("ValueError")
        ELSE Returned(_write_checksums(rom3, header))

(***************************************************************************)
(* models/gb_instruction.py and codegen/lr35902_opcodes.py.                *)
(***************************************************************************)
\* the opcodes absent from the OPCODES table
UnknownOpcodes ==
    {8, 54, 211, 217, 219, 221, 226, 227, 228, 235, 236, 237, 242, 244, 248,
     249, 252, 253}

OPCODES == Byte \ UnknownOpcodes

\* create_instruction: the fields of a GBInstruction that encode() reads;
\* an opcode outside the table raises ValueError
create_instruction(opcode, operands) ==
    IF opcode \in OPCODES THEN [opcode |-> opcode, operands |-> operands]
    ELSE [opcode |-> "ValueError", operands |-> <<>>]

\* GBInstruction.encode: the opcode byte, then each operand as one byte when
\* it is <= 0xFF and as two bytes, low byte first, otherwise
RECURSIVE encode_operands(_)
encode_operands(operands) ==
    IF operands = <<>> THEN <<>>
    ELSE LET operand == Head(operands)
         IN  (IF operand <= 255 THEN <<operand>>
              ELSE <<And_0xFF(operand), And_0xFF(ShiftRight(operand, 8))>>)
             \o encode_operands(Tail(operands))

encode(instruction) == <<instruction.opcode>> \o encode_operands(instruction.operands)

(***************************************************************************)
(* codegen/instruction_emitter.py.  The code list holds one bytes object   *)
(* per emit / emit_bytes call; labels is a dict from name to position;     *)
(* label_refs is a list of (name, position) pairs.                         *)
(***************************************************************************)
EmptyDict == [k \in {} |-> 0]

dict_set(d, key, value) ==
    [k \in DOMAIN d \cup {key} |-> IF k = key THEN value ELSE d[k]]

InstructionEmitter == [code |-> <<>>, labels |-> EmptyDict, label_refs |-> <<>>]

\* sum(len(c) for c in self.code)
RECURSIVE get_position_loop(_)
get_position_loop(chunks) ==
    IF chunks = <<>> THEN 0 ELSE Len(Head(chunks)) + get_position_loop(Tail(chunks))

get_position(em) == get_position_loop(em.code)

emit(em, instruction) == [em EXCEPT !.code = Append(@, encode(instruction))]

\* mutant: the chunk is put in front of the list
emit_bytes_in_front(em, data) == [em EXCEPT !.code = <<data>> \o @]

emit_bytes(em, data) == [em EXCEPT !.code = Append(@, data)]

define_label(em, name) == [em EXCEPT !.labels = dict_set(@, name, get_position(em))]

reference_label(em, name, position) ==
    [em EXCEPT !.label_refs = Append(@, <<name, position>>)]

\* bytearray(); for chunk in self.code: result.extend(chunk)
RECURSIVE Flatten(_)
Flatten(chunks) ==
    IF chunks = <<>> THEN <<>> ELSE Head(chunks) \o Flatten(Tail(chunks))

CodeReturned(bytes) == [status |-> "ok", code |-> bytes]
CodeRaised(exc) == [status |-> exc, code |-> <<>>]

\* mutant: a displacement of 128 is accepted
RECURSIVE resolve_loop_accepts_128(_, _, _)
resolve_loop_accepts_128(em, bytes, k) ==
    IF k > Len(em.label_refs) THEN CodeReturned(bytes)
    ELSE LET label_name == em.label_refs[k][1]
             ref_pos    == em.label_refs[k][2]
         IN  IF label_name \in DOMAIN em.labels
             THEN LET target_pos == em.labels[label_name]
                      offset     == target_pos - (ref_pos + 1)
                  IN  IF -128 <= offset /\ offset <= 128
                      THEN IF ref_pos < Len(bytes)
                           THEN resolve_loop_accepts_128(em, SetByte(bytes, ref_pos, And_0xFF(offset)), k + 1)
                           ELSE CodeRaised("IndexError")
                      ELSE CodeRaised("ValueError")
             ELSE resolve_loop_accepts_128(em, bytes, k + 1)

\* the loop over self.label_refs, from reference k on: a reference whose name
\* is not in self.labels is passed over
RECURSIVE resolve_loop(_, _, _)
resolve_loop(em, bytes, k) ==
    IF k > Len(em.label_refs) THEN CodeReturned(bytes)
    ELSE LET label_name == em.label_refs[k][1]
             ref_pos    == em.label_refs[k][2]
         IN  IF label_name \in DOMAIN em.labels
             THEN LET target_pos == em.labels[label_name]
                      offset     == target_pos - (ref_pos + 1)
                  IN  IF -128 <= offset /\ offset <= 127
                      THEN IF ref_pos < Len(bytes)
                           THEN resolve_loop(em, SetByte(bytes, ref_pos, And_0xFF(offset)), k + 1)
                           ELSE CodeRaised("IndexError")
                      ELSE CodeRaised("ValueError")
             ELSE resolve_loop(em, bytes, k + 1)

resolve_labels(em) == resolve_loop(em, Flatten(em.code), 1)

get_code(em) == resolve_labels(em)

(***************************************************************************)
(* models/ir.py: the fields of the IR that the code generator reads.  The  *)
(* methods dict of a module is the sequence of its (key, method) items in  *)
(* insertion order.                                                        *)
(***************************************************************************)
None == "None"

IrInstruction(opcode, operands) == [opcode |-> opcode, operands |-> operands]

IrBasicBlock(label, instructions) == [label |-> label, instructions |-> instructions]

IrMethod(name, full_name, basic_blocks, is_entry_point) ==
    [name |-> name, full_name |-> full_name, basic_blocks |-> basic_blocks,
     is_entry_point |-> is_entry_point]

IrModule(methods, entry_point) == [methods |-> methods, entry_point |-> entry_point]

(***************************************************************************)
(* services/code_generator.py.                                             *)
(***************************************************************************)
STACK_START == 65534

FONT_TILES ==
    <<24, 24, 36, 36, 66, 66, 126, 126, 66, 66, 66, 66, 66, 66, 0, 0, 124,
      124, 66, 66, 124, 124, 66, 66, 66, 66, 66, 66, 124, 124, 0, 0, 60,
      60, 66, 66, 64, 64, 64, 64, 64, 64, 66, 66, 60, 60, 0, 0, 120, 120,
      68, 68, 66, 66, 66, 66, 66, 66, 68, 68, 120, 120, 0, 0, 126, 126, 64,
      64, 124, 124, 64, 64, 64, 64, 64, 64, 126, 126, 0, 0, 126, 126, 64,
      64, 124, 124, 64, 64, 64, 64, 64, 64, 64, 64, 0, 0, 60, 60, 66, 66,
      64, 64, 78, 78, 66, 66, 66, 66, 60, 60, 0, 0, 66, 66, 66, 66, 126,
      126, 66, 66, 66, 66, 66, 66, 66, 66, 0, 0, 62, 62, 8, 8, 8, 8, 8, 8,
      8, 8, 8, 8, 62, 62, 0, 0, 31, 31, 4, 4, 4, 4, 4, 4, 68, 68, 68, 68,
      56, 56, 0, 0, 66, 66, 68, 68, 72, 72, 112, 112, 72, 72, 68, 68, 66,
      66, 0, 0, 64, 64, 64, 64, 64, 64, 64, 64, 64, 64, 64, 64, 126, 126,
      0, 0, 66, 66, 102, 102, 90, 90, 66, 66, 66, 66, 66, 66, 66, 66, 0, 0,
      66, 66, 98, 98, 82, 82, 74, 74, 70, 70, 66, 66, 66, 66, 0, 0, 60, 60,
      66, 66, 66, 66, 66, 66, 66, 66, 66, 66, 60, 60, 0, 0, 124, 124, 66,
      66, 66, 66, 124, 124, 64, 64, 64, 64, 64, 64, 0, 0, 60, 60, 66, 66,
      66, 66, 66, 66, 74, 74, 68, 68, 58, 58, 0, 0, 124, 124, 66, 66, 66,
      66, 124, 124, 72, 72, 68, 68, 66, 66, 0, 0, 60, 60, 66, 66, 64, 64,
      60, 60, 2, 2, 66, 66, 60, 60, 0, 0, 127, 127, 8, 8, 8, 8, 8, 8, 8, 8,
      8, 8, 8, 8, 0, 0, 66, 66, 66, 66, 66, 66, 66, 66, 66, 66, 66, 66, 60,
      60, 0, 0, 66, 66, 66, 66, 66, 66, 66, 66, 36, 36, 36, 36, 24, 24, 0,
      0, 66, 66, 66, 66, 66, 66, 90, 90, 90, 90, 102, 102, 66, 66, 0, 0,
      66, 66, 36, 36, 24, 24, 24, 24, 24, 24, 36, 36, 66, 66, 0, 0, 65, 65,
      34, 34, 20, 20, 8, 8, 8, 8, 8, 8, 8, 8, 0, 0, 126, 126, 4, 4, 8, 8,
      16, 16, 32, 32, 64, 64, 126, 126, 0, 0, 0, 0, 0, 0, 0, 0, 0, 0, 0, 0,
      0, 0, 0, 0, 0, 0>>

\* the instructions of the hello-world program, before the padding
hello_world_code ==
    <<240, 68, 254, 144, 32, 250, 62, 0, 224, 64, 33, 0, 128, 17, 24, 2, 1,
      176, 1, 26, 34, 19, 11, 120, 177, 32, 248, 33, 0, 152, 62, 26, 1, 0,
      4, 34, 11, 120, 177, 62, 26, 32, 248, 33, 5, 153, 62, 7, 34, 62, 4,
      34, 62, 11, 34, 62, 11, 34, 62, 14, 34, 62, 26, 34, 62, 22, 34, 62,
      14, 34, 62, 17, 34, 62, 11, 34, 62, 3, 34, 62, 228, 224, 71, 62, 145,
      224, 64, 118, 24, 253>>

\* code is padded with zero bytes up to font_data_addr - CODE_START = 200,
\* then the font tiles follow
_generate_hello_world ==
    hello_world_code \o Repeat(0, 200 - Len(hello_world_code)) \o FONT_TILES

\* str.lower() on the opcode names of the model
lower(opcode) ==
    CASE opcode = "RET" -> "ret"
      [] opcode = "NOP" -> "nop"
      [] OTHER -> opcode

\* the opcode names for which opcode.startswith('ldc.i4') holds
StartsWithLdcI4 ==
    {"ldc.i4.m1", "ldc.i4.0", "ldc.i4.1", "ldc.i4.2", "ldc.i4.3", "ldc.i4.4",
     "ldc.i4.5", "ldc.i4.6", "ldc.i4.7", "ldc.i4.8", "ldc.i4.s", "ldc.i4"}

_get_ldc_value(opcode, operands) ==
    CASE opcode = "ldc.i4.0" -> 0
      [] opcode = "ldc.i4.1" -> 1
      [] opcode = "ldc.i4.2" -> 2
      [] opcode = "ldc.i4.3" -> 3
      [] opcode = "ldc.i4.4" -> 4
      [] opcode = "ldc.i4.5" -> 5
      [] opcode = "ldc.i4.6" -> 6
      [] opcode = "ldc.i4.7" -> 7
      [] opcode = "ldc.i4.8" -> 8
      [] opcode = "ldc.i4.m1" -> -1
      [] OTHER -> IF opcode \in {"ldc.i4.s", "ldc.i4"} /\ operands # <<>>
                  THEN operands[1]
                  ELSE 0

\* self.emitter.emit(create_instruction(op)) for each op of a list
RECURSIVE emit_each(_, _)
emit_each(em, opcodes) ==
    IF opcodes = <<>> THEN em
    ELSE emit_each(emit(em, create_instruction(Head(opcodes), <<>>)), Tail(opcodes))

\* a load of the low byte alone, the high byte left zero
_load_immediate_low_byte(em, value) ==
    LET em1 == emit(em, create_instruction(33, <<And_0xFF(value), 0>>))
    IN  emit(em1, create_instruction(229, <<>>))

_load_immediate(em, value) ==
    LET em1 == emit(em, create_instruction(33,
                   <<And_0xFF(value), And_0xFF(ShiftRight(value, 8))>>))
    IN  emit(em1, create_instruction(229, <<>>))

\* mutant: the sum is not pushed
_generate_add_no_push(em) == emit_each(em, <<209, 225, 25>>)

_generate_add(em) == emit_each(em, <<209, 225, 25, 229>>)

_generate_sub(em) == emit_each(em, <<209, 225, 125, 147, 111, 124, 154, 103, 229>>)

_generate_instruction(em, ir_inst) ==
    LET opcode == lower(ir_inst.opcode)
    IN  CASE opcode = "nop" -> emit(em, create_instruction(0, <<>>))
          [] opcode = "ret" -> emit(em, create_instruction(201, <<>>))
          [] opcode \in StartsWithLdcI4 ->
                 _load_immediate(em, _get_ldc_value(opcode, ir_inst.operands))
          [] opcode = "add" -> _generate_add(em)
          [] opcode = "sub" -> _generate_sub(em)
          [] OTHER -> emit(em, create_instruction(0, <<>>))

RECURSIVE generate_instructions(_, _)
generate_instructions(em, instructions) ==
    IF instructions = <<>> THEN em
    ELSE generate_instructions(_generate_instruction(em, Head(instructions)),
                               Tail(instructions))

RECURSIVE generate_blocks(_, _)
generate_blocks(em, blocks) ==
    IF blocks = <<>> THEN em
    ELSE LET block == Head(blocks)
         IN  generate_blocks(
                 generate_instructions(define_label(em, block.label), block.instructions),
                 Tail(blocks))

\* every block, then always one RET
_generate_method(em, method) ==
    emit(generate_blocks(em, method.basic_blocks), create_instruction(201, <<>>))

_generate_startup(em) ==
    LET em1 == emit(em, create_instruction(49,
                   <<And_0xFF(STACK_START), And_0xFF(ShiftRight(STACK_START, 8))>>))
    IN  emit(em1, create_instruction(243, <<>>))

\* the loop over ir_module.methods.items(); g holds the emitter and the
\* method-address map
RECURSIVE generate_methods(_, _)
generate_methods(g, methods) ==
    IF methods = <<>> THEN g
    ELSE LET method_name == Head(methods)[1]
             method      == Head(methods)[2]
         IN  generate_methods(
                 [emitter |-> _generate_method(g.emitter, method),
                  method_addresses |->
                      dict_set(g.method_addresses, method_name, get_position(g.emitter))],
                 Tail(methods))

_generate_generic(em, ir_mod) ==
    LET g == generate_methods([emitter |-> _generate_startup(em),
                               method_addresses |-> EmptyDict],
                              ir_mod.methods)
    IN  IF ir_mod.entry_point # None /\ ir_mod.entry_point # ""
        THEN LET entry_addr == dict_get(g.method_addresses, ir_mod.entry_point, CODE_START)
             IN  [g EXCEPT !.emitter = emit(@, create_instruction(195,
                     <<And_0xFF(entry_addr), And_0xFF(ShiftRight(entry_addr, 8))>>))]
        ELSE g

\* has_hello_world after _detect_hello_world: set when some method is the
\* entry point or is named Main (with or without a call in its body), left
\* as it was otherwise
_detect_hello_world(flag, ir_mod) ==
    IF \E k \in 1..Len(ir_mod.methods) :
           ir_mod.methods[k][2].is_entry_point \/ ir_mod.methods[k][2].name = "Main"
    THEN TRUE
    ELSE flag

\* generate: the generator's fields after the call and the returned bytes
generate(flag, ir_mod) ==
    LET detected == _detect_hello_world(flag, ir_mod)
    IN  IF detected
        THEN [emitter |-> InstructionEmitter, method_addresses |-> EmptyDict,
              has_hello_world |-> detected,
              code |-> CodeReturned(_generate_hello_world)]
        ELSE LET g == _generate_generic(InstructionEmitter, ir_mod)
             IN  [emitter |-> g.emitter, method_addresses |-> g.method_addresses,
                  has_hello_world |-> detected,
                  code |-> get_code(g.emitter)]

(***************************************************************************)
(* services/msil_reader.py: MsilReader.get_method_body.  A MethodDef row   *)
(* is its Name, its Rva and the file offset assembly.get_offset_from_rva   *)
(* gives for the Rva.  The outcome is bytes or None.                       *)
(***************************************************************************)
MethodDef(name, rva, body_offset) ==
    [Name |-> name, Rva |-> rva, body_offset |-> body_offset]

BodyBytes(b) == [status |-> "bytes", body |-> b]
BodyNone == [status |-> "None", body |-> <<>>]

\* data[start:stop] for 0 <= start
Slice(data, start, stop) ==
    SubSeq(data, start + 1, IF stop < Len(data) THEN stop ELSE Len(data))

\* a read data[k] past the end raises IndexError; the except clause prints a
\* warning and returns None.  A header whose low two bits are 00 or 01
\* matches neither branch and falls to the final return None.
get_method_body(data, method) ==
    IF method.Rva = 0 THEN BodyNone
    ELSE LET body_offset == method.body_offset
         IN  IF body_offset >= Len(data) THEN BodyNone
             ELSE LET header_byte == At(data, body_offset)
                  IN  IF header_byte % 4 = 2
                      THEN LET code_size == ShiftRight(header_byte, 2)
                               il_start  == body_offset + 1
                           IN  BodyBytes(Slice(data, il_start, il_start + code_size))
                      ELSE IF header_byte % 4 = 3
                      THEN IF body_offset + 7 >= Len(data) THEN BodyNone
                           ELSE LET code_size == At(data, body_offset + 4)
                                                 + At(data, body_offset + 5) * 256
                                                 + At(data, body_offset + 6) * 65536
                                                 + At(data, body_offset + 7) * 16777216
                                    il_start  == body_offset + 12
                                IN  BodyBytes(Slice(data, il_start, il_start + code_size))
                      ELSE BodyNone

(***************************************************************************)
(* services/ir_builder.py.                                                 *)
(***************************************************************************)
MSIL_OPCODES ==
    0 :> "nop" @@ 1 :> "break" @@ 2 :> "ldarg.0" @@ 3 :> "ldarg.1"
    @@ 4 :> "ldarg.2" @@ 5 :> "ldarg.3" @@ 6 :> "ldloc.0" @@ 7 :> "ldloc.1"
    @@ 8 :> "ldloc.2" @@ 9 :> "ldloc.3" @@ 10 :> "stloc.0" @@ 11 :> "stloc.1"
    @@ 12 :> "stloc.2" @@ 13 :> "stloc.3" @@ 14 :> "ldarg.s"
    @@ 15 :> "ldarga.s" @@ 16 :> "starg.s" @@ 17 :> "ldloc.s"
    @@ 18 :> "ldloca.s" @@ 19 :> "stloc.s" @@ 20 :> "ldnull"
    @@ 21 :> "ldc.i4.m1" @@ 22 :> "ldc.i4.0" @@ 23 :> "ldc.i4.1"
    @@ 24 :> "ldc.i4.2" @@ 25 :> "ldc.i4.3" @@ 26 :> "ldc.i4.4"
    @@ 27 :> "ldc.i4.5" @@ 28 :> "ldc.i4.6" @@ 29 :> "ldc.i4.7"
    @@ 30 :> "ldc.i4.8" @@ 31 :> "ldc.i4.s" @@ 32 :> "ldc.i4" @@ 33 :> "ldc.i8"
    @@ 34 :> "ldc.r4" @@ 35 :> "ldc.r8" @@ 37 :> "dup" @@ 38 :> "pop"
    @@ 39 :> "jmp" @@ 40 :> "call" @@ 41 :> "calli" @@ 42 :> "ret"
    @@ 43 :> "br.s" @@ 44 :> "brfalse.s" @@ 45 :> "brtrue.s" @@ 46 :> "beq.s"
    @@ 47 :> "bge.s" @@ 48 :> "bgt.s" @@ 49 :> "ble.s" @@ 50 :> "blt.s"
    @@ 56 :> "br" @@ 57 :> "brfalse" @@ 58 :> "brtrue" @@ 88 :> "add"
    @@ 89 :> "sub" @@ 90 :> "mul" @@ 91 :> "div" @@ 95 :> "and" @@ 96 :> "or"
    @@ 97 :> "xor" @@ 98 :> "shl" @@ 99 :> "shr" @@ 111 :> "callvirt"
    @@ 114 :> "ldstr" @@ 115 :> "newobj" @@ 123 :> "ldfld" @@ 124 :> "ldflda"
    @@ 125 :> "stfld" @@ 126 :> "ldsfld" @@ 127 :> "ldsflda" @@ 128 :> "stsfld"
    @@ 140 :> "box" @@ 141 :> "newarr" @@ 142 :> "ldlen" @@ 143 :> "ldelema"
    @@ 144 :> "ldelem.i1" @@ 145 :> "ldelem.u1" @@ 146 :> "ldelem.i2"
    @@ 147 :> "ldelem.u2" @@ 148 :> "ldelem.i4" @@ 149 :> "ldelem.u4"
    @@ 150 :> "ldelem.i8" @@ 151 :> "ldelem.i" @@ 152 :> "ldelem.r4"
    @@ 153 :> "ldelem.r8" @@ 154 :> "ldelem.ref" @@ 156 :> "stelem.i1"
    @@ 157 :> "stelem.i2" @@ 158 :> "stelem.i4" @@ 159 :> "stelem.i8"
    @@ 160 :> "stelem.r4" @@ 161 :> "stelem.r8" @@ 162 :> "stelem.ref"
    @@ 208 :> "ldtoken" @@ 209 :> "conv.u2" @@ 210 :> "conv.u1"
    @@ 211 :> "conv.i"

HexDigit(d) ==
    <<"0", "1", "2", "3", "4", "5", "6", "7", "8", "9", "a", "b", "c", "d", "e", "f">>[d + 1]

RECURSIVE Hex(_)
Hex(n) == IF n < 16 THEN HexDigit(n) ELSE Hex(n \div 16) \o HexDigit(n % 16)

\* f'{n:02x}'
format_02x(n) == IF n < 16 THEN "0" \o Hex(n) ELSE Hex(n)

\* IrInstruction(opcode=..., operands=..., metadata={'raw_opcode': ...})
DecodedInstruction(opcode_name, operands, raw_opcode) ==
    [opcode |-> opcode_name, operands |-> operands,
     metadata |-> [raw_opcode |-> raw_opcode]]

OneByteOperand == {"ldc.i4.s", "ldarg.s", "ldloc.s", "stloc.s", "starg.s"}

FourByteOperand ==
    {"ldc.i4", "br", "brfalse", "brtrue", "call", "callvirt", "newobj", "ldfld",
     "stfld", "ldsfld", "stsfld", "ldstr", "newarr", "ldtoken"}

SignedByteOperand ==
    {"br.s", "brfalse.s", "brtrue.s", "beq.s", "bge.s", "bgt.s", "ble.s", "blt.s"}

\* the while loop of _parse_il_body from cursor i on; the result holds the
\* instructions of the block and the cursor at the end of the loop
RECURSIVE parse_loop(_, _, _)
parse_loop(il_bytes, i, instructions) ==
    IF i >= Len(il_bytes) THEN [instructions |-> instructions, i |-> i]
    ELSE LET first  == At(il_bytes, i)
             i1     == IF first = 254 THEN i + 1 ELSE i
             opcode == IF first = 254 /\ i1 < Len(il_bytes)
                       THEN 65024 + At(il_bytes, i1)
                       ELSE first
             opcode_name == dict_get(MSIL_OPCODES, And_0xFF(opcode),
                                     "unknown_" \o format_02x(opcode))
             i2     == i1 + 1
             inst(operands) == DecodedInstruction(opcode_name, operands, opcode)
         IN  IF opcode_name \in OneByteOperand /\ i2 < Len(il_bytes)
             THEN parse_loop(il_bytes, i2 + 1,
                             Append(instructions, inst(<<At(il_bytes, i2)>>)))
             ELSE IF opcode_name \in FourByteOperand /\ i2 + 3 < Len(il_bytes)
             THEN parse_loop(il_bytes, i2 + 4,
                             Append(instructions,
                                    inst(<<At(il_bytes, i2)
                                           + At(il_bytes, i2 + 1) * 256
                                           + At(il_bytes, i2 + 2) * 65536
                                           + At(il_bytes, i2 + 3) * 16777216>>)))
             ELSE IF opcode_name \in SignedByteOperand /\ i2 < Len(il_bytes)
             THEN parse_loop(il_bytes, i2 + 1,
                             Append(instructions,
                                    inst(<<IF At(il_bytes, i2) > 127
                                           THEN At(il_bytes, i2) - 256
                                           ELSE At(il_bytes, i2)>>)))
             ELSE parse_loop(il_bytes, i2, Append(instructions, inst(<<>>)))

\* the IrMethod after _parse_il_body and the cursor at its end
_parse_il_body(method, il_bytes) ==
    LET r == parse_loop(il_bytes, 0, <<>>)
    IN  [ir_method |-> [method EXCEPT !.basic_blocks =
                            Append(@, IrBasicBlock("entry", r.instructions))],
         i |-> r.i]

\* method_name.startswith('.') on the method names of the model
StartsWithDot == {".ctor", ".cctor"}

(***************************************************************************)
(* The inputs RomBuilder.build is called with.                             *)
(***************************************************************************)
\* all sequences over S of length 0..n
RECURSIVE SeqsUpTo(_, _)
SeqsUpTo(S, n) ==
    IF n = 0 THEN {<<>>}
    ELSE LET P == SeqsUpTo(S, n - 1)
         IN  P \cup {Append(q, c) : q \in {x \in P : Len(x) = n - 1}, c \in S}

\* 'h', e with acute accent (U+00E9), sharp s (U+00DF)
TitleChars == {104, 233, 223}

\* 'HELLO WORLD', 'abcdefghijklmno' (15), 'abcdefghijklmnop' (16),
\* 'abcdefghijklmnopq' (17), and a 17-character title whose second character
\* is not ASCII
LongTitles ==
    { DEFAULT_TITLE,
      <<97, 98, 99, 100, 101, 102, 103, 104, 105, 106, 107, 108, 109, 110, 111>>,
      <<97, 98, 99, 100, 101, 102, 103, 104, 105, 106, 107, 108, 109, 110, 111, 112>>,
      <<97, 98, 99, 100, 101, 102, 103, 104, 105, 106, 107, 108, 109, 110, 111, 112, 113>>,
      <<97, 233, 99, 100, 101, 102, 103, 104, 105, 106, 107, 108, 109, 110, 111, 112, 113>> }

Titles == SeqsUpTo(TitleChars, MaxTitleLen) \cup LongTitles

\* (cartridge_type, rom_size) pairs; 256 and -1 are not storable in a bytearray
HeaderPairs == {<<0, 0>>, <<27, 5>>, <<256, 0>>, <<0, -1>>}

\* a code string of n bytes
CodeOf(n, seed) == SubSeq([k \in 1..n |-> (seed + 37 * k) % 256], 1, n)

CodeSeeds == {0, 201}

CodeLens == (0..MaxCodeLen) \cup {MIN_ROM_SIZE - CODE_START + d : d \in 0..MaxOver}

Codes == {CodeOf(n, seed) : n \in CodeLens, seed \in CodeSeeds}

EmptyConfig == [k \in {} |-> 0]

\* the config main.py passes: title, cartridge_type and rom_size
DriverConfig(title, pair) ==
    [title |-> title, cartridge_type |-> pair[1], rom_size |-> pair[2]]

RomInputs ==
    (Codes \X {EmptyConfig, [skip_runtime |-> FALSE]})
    \cup ({CodeOf(2, 0)} \X {DriverConfig(t, p) : t \in Titles, p \in HeaderPairs})

NoResult == [status |-> "none", image |-> <<>>]

(***************************************************************************)
(* RomBuilder.build called on one (code, config) pair.                     *)
(***************************************************************************)
\* no InstructionEmitter call made yet
NoEmResult == [op |-> "none", status |-> "none", value |-> <<>>]

\* no run has returned an image yet
NoRun == [valid |-> FALSE, ir_module |-> None, config |-> EmptyConfig, image |-> <<>>]

\* no assembly read and no method decoded yet
NoFrontEnd ==
    /\ assembly_data = <<>>
    /\ method_def = None
    /\ il_body = [status |-> "none", body |-> <<>>]
    /\ il_cursor = 0
    /\ ir_method = None
    /\ method_rows = <<>>

\* no type table loaded and no type resolved yet
NoTypes ==
    /\ type_defs = <<>>
    /\ type_cache = <<>>
    /\ type_result = [type |-> "none", status |-> "none", layout |-> <<>>]

\* CodeGenerator.__init__ and the start of main()
NewGenerator ==
    /\ emitter = InstructionEmitter
    /\ has_hello_world = FALSE
    /\ method_addresses = EmptyDict
    /\ ir_module = None
    /\ pc = "idle"
    /\ gen_calls = 0
    /\ first_run = NoRun

InitRom ==
    /\ \E inp \in RomInputs : code = inp[1] /\ config = inp[2]
    /\ result = NoResult
    /\ em_result = NoEmResult
    /\ NewGenerator
    /\ NoTypes
    /\ NoFrontEnd

Build ==
    /\ result.status = "none"
    /\ result' = build(code, config)
    /\ UNCHANGED <<code, config, emitter_vars, generator_vars, main_vars, front_vars, type_vars>>

NextRom == Build

SpecRom == InitRom /\ [][NextRom]_vars

(***************************************************************************)
(* Properties of the image RomBuilder.build returns.                       *)
(***************************************************************************)
BuiltOk == result.status = "ok"

\* image[a] of the returned image
ImageAt(a) == result.image[a + 1]

\* image[lo..=hi] of the returned image
ImageRange(lo, hi) == SubSeq(result.image, lo + 1, hi + 1)

Max(a, b) == IF a >= b THEN a ELSE b

PowersOfTwo == {2 ^ k : k \in 0..24}

SmallestPowerOfTwoAtLeast(n) ==
    CHOOSE p \in PowersOfTwo : p >= n /\ \A q \in PowersOfTwo : q >= n => p <= q

\* the config asks for the runtime library in front of the code
RuntimeAdded == "skip_runtime" \in DOMAIN config /\ config["skip_runtime"] = FALSE

RECURSIVE HeaderX(_)
HeaderX(a) == IF a < 308 THEN 0 ELSE HeaderX(a - 1) - ImageAt(a) - 1

\* C2: in every returned image the byte at 0x014D is x & 0xFF, x computed
\* over the bytes 0x0134..0x014C of the returned image.
C2_HeaderChecksum == BuiltOk => ImageAt(333) = HeaderX(332) % 256

\* an image with a title and a cartridge type of its own carries a checksum
C2_Witness ==
    /\ BuiltOk
    /\ "title" \in DOMAIN config /\ config["title"] # DEFAULT_TITLE
    /\ config["cartridge_type"] # 0
    /\ ImageAt(333) # 0

\* the sum of image[lo..=hi]
RECURSIVE SumOfBytes(_, _)
SumOfBytes(lo, hi) ==
    IF lo > hi THEN 0
    ELSE IF lo = hi THEN ImageAt(lo)
    ELSE SumOfBytes(lo, (lo + hi) \div 2) + SumOfBytes(((lo + hi) \div 2) + 1, hi)

SumExceptGlobalChecksum ==
    (SumOfBytes(0, 333) + SumOfBytes(336, Len(result.image) - 1)) % 65536

\* C3: in every returned image the 16-bit sum of all bytes except 0x014E and
\* 0x014F (the header checksum byte and the code included) is stored low byte
\* first at 0x014E, high byte at 0x014F.
C3_GlobalChecksum ==
    BuiltOk =>
        /\ ImageAt(334) = SumExceptGlobalChecksum % 256
        /\ ImageAt(335) = (SumExceptGlobalChecksum \div 256) % 256

\* an image holding code whose two checksum bytes differ
C3_Witness == BuiltOk /\ Len(code) > 0 /\ ImageAt(334) # ImageAt(335)

\* C4: bytes 0x0100..0x0103 of every returned image are 00 C3 50 01.
C4_BootJump == BuiltOk => ImageRange(256, 259) = <<0, 195, 80, 1>>

\* an image with a title and code of its own was returned
C4_Witness == BuiltOk /\ "title" \in DOMAIN config /\ Len(config["title"]) >= 16 /\ Len(code) > 0

\* C5: bytes 0x0104..0x0133 of every returned image are the 48-byte boot logo.
C5_BootLogo ==
    BuiltOk =>
        ImageRange(260, 307) =
            <<206, 237, 102, 102, 204, 13, 0, 11, 3, 115, 0, 131, 0, 12, 0, 13,
              0, 8, 17, 31, 136, 137, 0, 14, 220, 204, 110, 230, 221, 221, 217, 153,
              187, 187, 103, 99, 110, 14, 236, 204, 221, 220, 153, 159, 187, 185, 51, 62>>

\* an image with a non-empty title was returned
C5_Witness == BuiltOk /\ "title" \in DOMAIN config /\ Len(config["title"]) > 0

\* the title the last call was given
TitleOf(cfg) == IF "title" \in DOMAIN cfg THEN cfg["title"] ELSE DEFAULT_TITLE

\* an ASCII character in upper case
AsciiUpper(c) == IF c \in 97..122 THEN c - 32 ELSE c

\* the title field C6 describes: the ASCII characters of the title in upper
\* case, at most 15 of them, then 0x00 up to 16 bytes
ClaimedTitleField(title) ==
    LET ascii == SelectSeq(title, IsAscii)
        kept  == Prefix([i \in 1..Len(ascii) |-> AsciiUpper(ascii[i])], 15)
    IN  [i \in 1..16 |-> IF i <= Len(kept) THEN kept[i] ELSE 0]

\* C6: the title field 0x0134..0x0143 of every returned image holds the ASCII
\* characters of the title in upper case, in order, a non-ASCII character
\* contributing no byte, then 0x00; at most 15 title bytes, image[0x0143] = 0.
C6_TitleField ==
    BuiltOk => \A i \in 1..16 : ImageAt(307 + i) = ClaimedTitleField(TitleOf(config))[i]

\* C7: with the default configuration image[0x0150 + k] = code[k] for every
\* k < len(code), and every byte outside the vectors 0x0000..0x0003, the
\* header 0x0100..0x014F and the code is 0xFF.
C7_CodeAndPadding ==
    (BuiltOk /\ config = EmptyConfig) =>
        /\ \A k \in 1..Len(code) : ImageAt(336 + k - 1) = code[k]
        /\ \A a \in 0..(Len(result.image) - 1) :
               (a \in 4..255 \/ a >= 336 + Len(code)) => ImageAt(a) = 255

\* an image built from non-empty code with the default configuration
C7_Witness == BuiltOk /\ config = EmptyConfig /\ Len(code) > 0 /\ Len(code) <= MaxCodeLen

(***************************************************************************)
(* An InstructionEmitter driven through its methods.                       *)
(***************************************************************************)
LabelNames == {"entry", "loop"}

\* NOP, and JR with a placeholder operand
EmitInstructions == {create_instruction(0, <<>>), create_instruction(24, <<0>>)}

\* RET, and blocks that put a label 126, 127 or 128 bytes past a reference
\* (or 128, 129 or 130 bytes before it): both ends of a one-byte displacement
EmitData == {<<201>>} \cup {Repeat(0, n) : n \in 126..128}

\* the byte just emitted, or the byte about to be emitted
ReferencePositions(em) == {p \in {get_position(em) - 1, get_position(em)} : p >= 0}

InitEmit ==
    /\ code = <<>>
    /\ config = EmptyConfig
    /\ result = NoResult
    /\ em_result = NoEmResult
    /\ NewGenerator
    /\ NoTypes
    /\ NoFrontEnd

Emit ==
    /\ Len(emitter.code) < MaxChunks
    /\ \E instruction \in EmitInstructions :
           /\ emitter' = emit(emitter, instruction)
           /\ em_result' = [op |-> "emit", status |-> "ok", value |-> get_position(emitter)]
    /\ UNCHANGED <<rom_vars, generator_vars, main_vars, front_vars, type_vars>>

EmitBytes ==
    /\ Len(emitter.code) < MaxChunks
    /\ \E data \in EmitData :
           /\ emitter' = emit_bytes(emitter, data)
           /\ em_result' = [op |-> "emit_bytes", status |-> "ok",
                            value |-> get_position(emitter)]
    /\ UNCHANGED <<rom_vars, generator_vars, main_vars, front_vars, type_vars>>

DefineLabel ==
    /\ \E name \in LabelNames :
           /\ emitter' = define_label(emitter, name)
           /\ em_result' = [op |-> "define_label", status |-> "ok", value |-> name]
    /\ UNCHANGED <<rom_vars, generator_vars, main_vars, front_vars, type_vars>>

ReferenceLabel ==
    /\ Len(emitter.label_refs) < MaxRefs
    /\ \E name \in LabelNames, position \in ReferencePositions(emitter) :
           /\ emitter' = reference_label(emitter, name, position)
           /\ em_result' = [op |-> "reference_label", status |-> "ok", value |-> name]
    /\ UNCHANGED <<rom_vars, generator_vars, main_vars, front_vars, type_vars>>

GetCode ==
    /\ LET r == get_code(emitter)
       IN  em_result' = [op |-> "get_code", status |-> r.status, value |-> r.code]
    /\ UNCHANGED <<emitter, rom_vars, generator_vars, main_vars, front_vars, type_vars>>

NextEmit == Emit \/ EmitBytes \/ DefineLabel \/ ReferenceLabel \/ GetCode

SpecEmit == InitEmit /\ [][NextEmit]_vars

(***************************************************************************)
(* Properties of the label table and of finalization.                      *)
(***************************************************************************)
\* C9: through any emitter operation a label that is defined stays defined
\* at the offset recorded for it; define_label on a name already in the
\* table leaves the table as it was.
C9_LabelOffsetNeverChanges ==
    [][\A name \in DOMAIN emitter.labels :
           /\ name \in DOMAIN emitter'.labels
           /\ emitter'.labels[name] = emitter.labels[name]]_vars

UndefinedReference(em) ==
    \E k \in 1..Len(em.label_refs) : em.label_refs[k][1] \notin DOMAIN em.labels

\* C10: when the reference list holds a reference to a name that is not in
\* the label table, get_code does not return a buffer: it fails with
\* UnresolvedLabel.
C10_UndefinedReferenceFails ==
    (em_result.op = "get_code" /\ UndefinedReference(emitter))
        => em_result.status = "UnresolvedLabel"

RefName(em, k) == em.label_refs[k][1]
RefPos(em, k) == em.label_refs[k][2]

\* reference k names a label that is in the table
DefinedRef(em, k) == RefName(em, k) \in DOMAIN em.labels

\* target - (pos + 1) of reference k
Displacement(em, k) == em.labels[RefName(em, k)] - (RefPos(em, k) + 1)

\* every reference points at a byte that has been emitted
RefsInBuffer(em) == \A k \in 1..Len(em.label_refs) : RefPos(em, k) < get_position(em)

\* no later reference to a defined label patches the same byte
LastPatchAt(em, k) ==
    \A j \in (k + 1)..Len(em.label_refs) :
        ~(DefinedRef(em, j) /\ RefPos(em, j) = RefPos(em, k))

FinalizedOk == em_result.op = "get_code" /\ em_result.status = "ok"

\* C11: finalization of references to defined labels whose positions lie in
\* the buffer: when some displacement target - (pos + 1) is outside
\* [-128, 127] no buffer is returned and the out-of-range error (ValueError)
\* is raised; otherwise the buffer is returned with (target - (pos + 1)) mod
\* 256 at pos.  Displacements -128 and 127 are accepted, -129 and 128 are
\* rejected.
C11_Rel8Range ==
    (em_result.op = "get_code" /\ RefsInBuffer(emitter)) =>
        IF \E k \in 1..Len(emitter.label_refs) :
               DefinedRef(emitter, k) /\ Displacement(emitter, k) \notin -128..127
        THEN em_result.status = "ValueError"
        ELSE /\ em_result.status = "ok"
             /\ \A k \in 1..Len(emitter.label_refs) :
                    (DefinedRef(emitter, k) /\ LastPatchAt(emitter, k)) =>
                        em_result.value[RefPos(emitter, k) + 1]
                            = Displacement(emitter, k) % 256

\* a backward reference at the boundary: displacement -128, patched as 0x80
C11_Witness ==
    /\ FinalizedOk
    /\ \E k \in 1..Len(emitter.label_refs) :
           /\ DefinedRef(emitter, k)
           /\ Displacement(emitter, k) = -128
           /\ em_result.value[RefPos(emitter, k) + 1] = 128

\* a one-byte displacement read back as a signed number
Signed8(b) == IF b > 127 THEN b - 256 ELSE b

\* C12: when finalization returns a buffer, every queued reference has been
\* applied: its label is defined and pos + 1 + signed(byte at pos) is the
\* label's offset, also for a label defined after the reference was queued.
C12_LabelClosure ==
    FinalizedOk =>
        \A k \in 1..Len(emitter.label_refs) :
            /\ DefinedRef(emitter, k)
            /\ RefPos(emitter, k) + 1 + Signed8(em_result.value[RefPos(emitter, k) + 1])
                   = emitter.labels[RefName(emitter, k)]

IsPrefixOf(a, b) == Len(a) <= Len(b) /\ SubSeq(b, 1, Len(a)) = a

PatchPositions(em) == {RefPos(em, k) : k \in 1..Len(em.label_refs)}

\* C13: the buffer is append-only.  Through every step the bytes emitted so
\* far stay a prefix of the buffer and the position, which is the number of
\* bytes in the chunks, never decreases; emit and emit_bytes return the
\* position before the append and move it by the length of the new chunk;
\* a finalized buffer has the length of the concatenated chunks and differs
\* from them at patch positions only.
C13_AppendOnly ==
    [][LET emitted == Flatten(emitter.code)
           appended == Flatten(emitter'.code)
           patched == PatchPositions(emitter)
           position == get_position(emitter)
       IN  /\ get_position(emitter') >= position
           /\ get_position(emitter') = Len(appended)
           /\ IsPrefixOf(emitted, appended)
           /\ em_result'.op \in {"emit", "emit_bytes"} =>
                  /\ em_result'.value = position
                  /\ Len(emitter'.code) = Len(emitter.code) + 1
                  /\ Len(appended)
                         = em_result'.value
                               + Len(emitter'.code[Len(emitter'.code)])
           /\ (em_result'.op = "get_code" /\ em_result'.status = "ok") =>
                  /\ Len(em_result'.value) = position
                  /\ \A a \in 0..(position - 1) :
                         a \notin patched =>
                             em_result'.value[a + 1] = emitted[a + 1]
      ]_vars

\* emit_bytes has appended to a buffer that held an instruction, a patch has
\* been applied over its placeholder and the rest of the buffer is as emitted
C13_Witness ==
    /\ FinalizedOk
    /\ Len(emitter.code) = 2
    /\ PatchPositions(emitter) = {1}
    /\ em_result.value # Flatten(emitter.code)
    /\ Len(em_result.value) > 100

(***************************************************************************)
(* main.py: generate, then build, repeated on one CodeGenerator.           *)
(***************************************************************************)
\* the method IrBuilder.build makes of a method definition: the entry point
\* is the method named Main, and a body gives one block labelled entry
BuiltMethod(name, body) ==
    IrMethod(name, name,
             IF body = <<>> THEN <<>> ELSE <<IrBasicBlock("entry", body)>>,
             name = "Main")

\* ldc.i4.3; ret
BodyMain == <<IrInstruction("ldc.i4.3", <<>>), IrInstruction("ret", <<>>)>>

\* ldc.i4.1; ldc.i4.s 200; add; ret
BodyFoo ==
    <<IrInstruction("ldc.i4.1", <<>>), IrInstruction("ldc.i4.s", <<200>>),
      IrInstruction("add", <<>>), IrInstruction("ret", <<>>)>>

\* no method; Foo alone; Foo and Bar; Main alone; Foo and Main; and a module
\* whose entry point is Foo
PipelineModules ==
    { IrModule(<<>>, None),
      IrModule(<<<<"Foo", BuiltMethod("Foo", BodyFoo)>>>>, None),
      IrModule(<<<<"Foo", BuiltMethod("Foo", BodyFoo)>>,
                 <<"Bar", BuiltMethod("Bar", <<>>)>>>>, None),
      IrModule(<<<<"Main", BuiltMethod("Main", BodyMain)>>>>, "Main"),
      IrModule(<<<<"Foo", BuiltMethod("Foo", BodyFoo)>>,
                 <<"Main", BuiltMethod("Main", BodyMain)>>>>, "Main"),
      IrModule(<<<<"Bar", BuiltMethod("Bar", <<>>)>>,
                 <<"Foo", BuiltMethod("Foo", BodyFoo)>>>>, "Foo") }

\* rom_config: title cut to 15 characters, cartridge type, rom_size 0
PipelineConfigs ==
    { DriverConfig(Prefix(DEFAULT_TITLE, 15), <<0, 0>>),
      DriverConfig(Prefix(<<104>>, 15), <<27, 0>>) }

InitMain ==
    /\ code = <<>>
    /\ config = EmptyConfig
    /\ result = NoResult
    /\ em_result = NoEmResult
    /\ NewGenerator
    /\ NoTypes
    /\ NoFrontEnd

\* machine_code = code_generator.generate(ir_module), and rom_config
Generate ==
    /\ pc = "idle"
    /\ gen_calls < MaxRuns
    /\ \E m \in PipelineModules, cfg \in PipelineConfigs :
           LET g == generate(has_hello_world, m)
           IN  /\ ir_module' = m
               /\ config' = cfg
               /\ emitter' = g.emitter
               /\ method_addresses' = g.method_addresses
               /\ has_hello_world' = g.has_hello_world
               /\ IF g.code.status = "ok"
                  THEN /\ code' = g.code.code
                       /\ result' = NoResult
                       /\ pc' = "generated"
                  ELSE /\ code' = <<>>
                       /\ result' = Raised(g.code.status)
                       /\ pc' = "idle"
    /\ gen_calls' = gen_calls + 1
    /\ UNCHANGED <<em_result, first_run, front_vars, type_vars>>

\* rom_data = rom_builder.build(machine_code, rom_config)
BuildRom ==
    /\ pc = "generated"
    /\ result' = build(code, config)
    /\ pc' = "idle"
    /\ first_run' =
           IF ~first_run.valid /\ result'.status = "ok"
           THEN [valid |-> TRUE, ir_module |-> ir_module, config |-> config,
                 image |-> result'.image]
           ELSE first_run
    /\ UNCHANGED <<code, config, emitter_vars, generator_vars, gen_calls, front_vars, type_vars>>

NextMain == Generate \/ BuildRom

SpecMain == InitMain /\ [][NextMain]_vars

(***************************************************************************)
(* Properties of the pipeline.                                             *)
(***************************************************************************)
\* C8: a run on the same IR module and the same config as an earlier run
\* returns the same image, byte for byte: the image is a function of the
\* input only.
C8_SameInputSameImage ==
    (/\ pc = "idle"
     /\ result.status = "ok"
     /\ first_run.valid
     /\ ir_module = first_run.ir_module
     /\ config = first_run.config)
        => result.image = first_run.image

(***************************************************************************)
(* IrBuilder.build on one method definition: the method body is read from  *)
(* the assembly and decoded.                                               *)
(***************************************************************************)
\* the operand bytes an opcode takes in a method body (ECMA-335 operand
\* shapes): 8 for 64-bit constants, 4 for 32-bit constants, long branches
\* and metadata tokens, 1 for the short forms, 0 otherwise
OperandBytes(opcode_name) ==
    IF opcode_name \in {"ldc.i8", "ldc.r8"} THEN 8
    ELSE IF opcode_name \in
            {"ldc.i4", "ldc.r4", "br", "brfalse", "brtrue", "jmp", "call", "calli",
             "callvirt", "ldstr", "newobj", "ldfld", "ldflda", "stfld", "ldsfld",
             "ldsflda", "stsfld", "box", "newarr", "ldelema", "ldtoken"}
    THEN 4
    ELSE IF opcode_name \in
            {"ldarg.s", "ldarga.s", "starg.s", "ldloc.s", "ldloca.s", "stloc.s",
             "ldc.i4.s", "br.s", "brfalse.s", "brtrue.s", "beq.s", "bge.s", "bgt.s",
             "ble.s", "blt.s"}
    THEN 1
    ELSE 0

\* an opcode of the table followed by its operand bytes, each of value fill
SyntheticBody(opcode, fill) == <<opcode>> \o Repeat(fill, OperandBytes(MSIL_OPCODES[opcode]))

\* operand bytes 0x00 and 0x2A (a 32-bit operand stays below 2^31)
Fills == {0, 42}

SyntheticBodies == {SyntheticBody(opcode, fill) : opcode \in DOMAIN MSIL_OPCODES, fill \in Fills}

\* bodies with the 0xFE prefix and with opcodes that have no table entry:
\* FE 16 (low byte shared with ldc.i4.0), FE 01 (ceq; low byte shared with
\* break), FE 24, 24, A5, a lone FE, and two of them followed by ret
PrefixedBodies ==
    {<<254, 22>>, <<254, 1>>, <<254, 36>>, <<36>>, <<165>>, <<254>>,
     <<254, 22, 42>>, <<36, 42>>}

\* ldc.i4.1; ldc.i4.2; add; ret
IlS5 == <<23, 24, 88, 42>>

\* a tiny header declaring size bytes
TinyHeader(size) == <<size * 4 + 2>>

\* a fat header (flags 0x3013, max stack 8, no locals) declaring size bytes
FatHeader(size) == <<19, 48, 8, 0, size, 0, 0, 0, 0, 0, 0, 0>>

\* assembly bytes: one padding byte, a header and the IL that follows it
AssemblyOf(header, il) == <<255>> \o header \o il

\* headers declaring 0..MaxIlLen bytes with 0..MaxIlLen bytes present, a fat
\* header cut short, and header bytes whose low two bits are 00 and 01
ReaderData ==
    {AssemblyOf(TinyHeader(size), Prefix(IlS5 \o IlS5, have)) :
         size \in 0..MaxIlLen, have \in 0..MaxIlLen}
    \cup {AssemblyOf(FatHeader(size), Prefix(IlS5 \o IlS5, have)) :
              size \in 0..MaxIlLen, have \in 0..MaxIlLen}
    \cup {AssemblyOf(Prefix(FatHeader(2), 6), <<>>),
          AssemblyOf(<<0>>, IlS5), AssemblyOf(<<9>>, IlS5)}

\* (assembly bytes, method definition) pairs
FrontInputs ==
    {<<AssemblyOf(TinyHeader(Len(b)), b), MethodDef("Foo", 8272, 1)>> :
         b \in SyntheticBodies \cup PrefixedBodies}
    \cup {<<d, MethodDef(name, 8272, 1)>> : d \in ReaderData, name \in {"Main", "Foo"}}
    \cup {<<AssemblyOf(TinyHeader(4), IlS5), m>> :
              m \in {MethodDef("Foo", 0, 0), MethodDef("Foo", 8272, 6),
                     MethodDef(".ctor", 8272, 1)}}

InitFront ==
    /\ \E inp \in FrontInputs : assembly_data = inp[1] /\ method_def = inp[2]
    /\ il_body = [status |-> "none", body |-> <<>>]
    /\ il_cursor = 0
    /\ ir_method = None
    /\ method_rows = <<>>
    /\ code = <<>>
    /\ config = EmptyConfig
    /\ result = NoResult
    /\ em_result = NoEmResult
    /\ NewGenerator
    /\ NoTypes

\* the body of the loop over the method definitions: constructors are
\* skipped; the body is read and, when it is not empty, decoded
BuildMethod ==
    /\ il_body.status = "none"
    /\ method_def.Name \notin StartsWithDot
    /\ LET method_name == method_def.Name
           body        == get_method_body(assembly_data, method_def)
           method      == IrMethod(method_name, method_name, <<>>, method_name = "Main")
           parsed      == _parse_il_body(method, body.body)
       IN  /\ il_body' = body
           /\ IF body.status = "bytes" /\ body.body # <<>>
              THEN ir_method' = parsed.ir_method /\ il_cursor' = parsed.i
              ELSE ir_method' = method /\ il_cursor' = 0
    /\ UNCHANGED <<assembly_data, method_def, method_rows, rom_vars, emitter_vars,
                   generator_vars, main_vars, type_vars>>

NextFront == BuildMethod

SpecFront == InitFront /\ [][NextFront]_vars

(***************************************************************************)
(* Properties of the method-body reader and of the IL decoder.             *)
(***************************************************************************)
\* a body has been read and decoded
Decoded == il_body.status = "bytes" /\ il_body.body # <<>>

DecodedInstructions == ir_method.basic_blocks[1].instructions

\* one opcode of the table followed by exactly its operand bytes
IsSyntheticBody(b) ==
    /\ b # <<>>
    /\ b[1] \in DOMAIN MSIL_OPCODES
    /\ Len(b) = 1 + OperandBytes(MSIL_OPCODES[b[1]])

\* C14: a body made of one opcode of the table and exactly the operand
\* bytes of its shape decodes to exactly one instruction, the one of that
\* opcode, and the cursor ends at the body length.
C14_OperandWidths ==
    (Decoded /\ IsSyntheticBody(il_body.body)) =>
        /\ Len(DecodedInstructions) = 1
        /\ DecodedInstructions[1].opcode = MSIL_OPCODES[il_body.body[1]]
        /\ il_cursor = Len(il_body.body)

\* the opcode the body starts with: 0xFE00 | b after a prefix byte
LeadingOpcode(b) == IF b[1] = 254 /\ Len(b) >= 2 THEN 65024 + b[2] ELSE b[1]

\* C15: 0xFE followed by b is the single opcode 0xFE00 | b, looked up as
\* that 16-bit value; an opcode without a table entry gives one instruction
\* named unknown_<hex> without operands.  The first instruction of every
\* decoded body is the one of its leading opcode.
C15_PrefixAndUnknown ==
    Decoded =>
        LET opcode == LeadingOpcode(il_body.body)
            first  == DecodedInstructions[1]
        IN  /\ first.metadata.raw_opcode = opcode
            /\ opcode \notin DOMAIN MSIL_OPCODES =>
                   /\ first.opcode = "unknown_" \o format_02x(opcode)
                   /\ first.operands = <<>>
            /\ opcode \in DOMAIN MSIL_OPCODES => first.opcode = MSIL_OPCODES[opcode]

HeaderByte == At(assembly_data, method_def.body_offset)

\* the code size the header declares and the offset of the IL
DeclaredSize ==
    IF HeaderByte % 4 = 2 THEN HeaderByte \div 4
    ELSE At(assembly_data, method_def.body_offset + 4)
         + At(assembly_data, method_def.body_offset + 5) * 256
         + At(assembly_data, method_def.body_offset + 6) * 65536
         + At(assembly_data, method_def.body_offset + 7) * 16777216

IlStart == method_def.body_offset + (IF HeaderByte % 4 = 2 THEN 1 ELSE 12)

BodyRead == il_body.status # "none"

\* the header byte, and for a fat header its twelve bytes, lie in the file
HeaderInFile ==
    /\ method_def.body_offset < Len(assembly_data)
    /\ HeaderByte % 4 = 3 => method_def.body_offset + 12 <= Len(assembly_data)

\* C16: a method without RVA has no body; a tiny or fat header whose
\* declared size is available gives exactly that many bytes from the start
\* of the IL; a header that is neither tiny nor fat, or that declares more
\* bytes than are available, fails with MalformedMethodBody.
C16_MethodBodyHeader ==
    (BodyRead /\ (method_def.Rva # 0 => HeaderInFile)) =>
        IF method_def.Rva = 0 THEN il_body = BodyNone
        ELSE IF HeaderByte % 4 \in {2, 3} /\ IlStart + DeclaredSize <= Len(assembly_data)
        THEN il_body = BodyBytes(SubSeq(assembly_data, IlStart + 1, IlStart + DeclaredSize))
        ELSE il_body.status = "MalformedMethodBody"

(***************************************************************************)
(* Properties of the code CodeGenerator.generate returns.                  *)
(***************************************************************************)
\* LD SP, 0xFFFE; DI
StartupStub == <<49, 254, 255, 243>>

\* generate has returned and build has not been called yet
Generated == pc = "generated"

\* C17: the code generate returns begins with the startup stub 31 FE FF F3;
\* for a module without methods the code is exactly the stub, and the image
\* built from it has the stub at 0x0150..0x0153 and 0xFF after it.
C17_StartupStub ==
    /\ Generated =>
           /\ Prefix(code, 4) = StartupStub
           /\ ir_module.methods = <<>> => code = StartupStub
    /\ (pc = "idle" /\ gen_calls > 0 /\ BuiltOk /\ ir_module.methods = <<>>) =>
           /\ ImageRange(CODE_START, CODE_START + 3) = StartupStub
           /\ \A a \in (CODE_START + 4)..(Len(result.image) - 1) : ImageAt(a) = 255

\* the module whose only method is Main with the body ldc.i4.3; ret
ModuleMain == IrModule(<<<<"Main", BuiltMethod("Main", BodyMain)>>>>, "Main")

\* C18: for the module whose only method is Main = ldc.i4.3; ret, generate
\* returns the startup stub, then 21 03 00 E5 C9, records offset 4 for Main
\* and ends the code with C3 followed by that offset, low byte first.
C18_MainLdcRet ==
    (Generated /\ ir_module = ModuleMain) =>
        /\ Prefix(code, 9) = StartupStub \o <<33, 3, 0, 229, 201>>
        /\ "Main" \in DOMAIN method_addresses
        /\ method_addresses["Main"] = 4
        /\ SubSeq(code, Len(code) - 2, Len(code)) = <<195, 4, 0>>

(***************************************************************************)
(* CodeGenerator._generate_method on one method, into a new emitter.       *)
(***************************************************************************)
\* ldc.i4.1, ldc.i4.2, ldc.i4.m1, ldc.i4.s 0xE5, ldc.i4 70000, add, sub, ret
LoweringPool ==
    {IrInstruction("ldc.i4.1", <<>>), IrInstruction("ldc.i4.2", <<>>),
     IrInstruction("ldc.i4.m1", <<>>), IrInstruction("ldc.i4.s", <<229>>),
     IrInstruction("ldc.i4", <<70000>>), IrInstruction("add", <<>>),
     IrInstruction("sub", <<>>), IrInstruction("ret", <<>>)}

\* methods with one block labelled entry
LoweringMethods ==
    {IrMethod("Foo", "Foo", <<IrBasicBlock("entry", body)>>, FALSE) :
         body \in SeqsUpTo(LoweringPool, MaxBodyLen)}

InitMethod ==
    /\ ir_method \in LoweringMethods
    /\ method_rows = <<>>
    /\ assembly_data = <<>>
    /\ method_def = None
    /\ il_body = [status |-> "none", body |-> <<>>]
    /\ il_cursor = 0
    /\ code = <<>>
    /\ config = EmptyConfig
    /\ result = NoResult
    /\ em_result = NoEmResult
    /\ NewGenerator
    /\ NoTypes

GenerateMethod ==
    /\ emitter = InstructionEmitter
    /\ emitter' = _generate_method(emitter, ir_method)
    /\ UNCHANGED <<em_result, rom_vars, generator_vars, main_vars, front_vars, type_vars>>

NextMethod == GenerateMethod

SpecMethod == InitMethod /\ [][NextMethod]_vars

(***************************************************************************)
(* Properties of the lowering of a method.                                 *)
(***************************************************************************)
MethodGenerated == emitter.code # <<>>

\* the IR instructions of the method
MethodBody == ir_method.basic_blocks[1].instructions

\* the chunks emitted when the first j instructions have been lowered
LoweredChunks(j) ==
    generate_instructions(define_label(InstructionEmitter, "entry"),
                          SubSeq(MethodBody, 1, j)).code

\* PUSH BC, DE, HL, AF and POP BC, DE, HL, AF
PushOpcodes == {197, 213, 229, 245}
PopOpcodes == {193, 209, 225, 241}

\* the instructions among the chunks whose opcode is in S
CountOpcodes(chunks, S) == Cardinality({k \in 1..Len(chunks) : chunks[k][1] \in S})

\* the depth of the IL evaluation stack after the instructions: a constant
\* load pushes one value, add and sub replace two values by one
RECURSIVE IlDepth(_)
IlDepth(instructions) ==
    IF instructions = <<>> THEN 0
    ELSE LET op == Head(instructions).opcode
         IN  (IF op \in StartsWithLdcI4 THEN 1
              ELSE IF op \in {"add", "sub"} THEN -1
              ELSE 0) + IlDepth(Tail(instructions))

CountIr(instructions, name) ==
    Cardinality({k \in 1..Len(instructions) : instructions[k].opcode = name})

\* C19: at every instruction boundary of a body built from ldc.i4.*, add,
\* sub and ret, the PUSH instructions minus the POP instructions emitted so
\* far equal the depth of the IL evaluation stack, and there is one
\* ADD HL,DE per IR add.
C19_StackDiscipline ==
    MethodGenerated =>
        \A j \in 0..Len(MethodBody) :
            LET chunks == LoweredChunks(j)
            IN  /\ IsPrefixOf(chunks, emitter.code)
                /\ CountOpcodes(chunks, PushOpcodes) - CountOpcodes(chunks, PopOpcodes)
                       = IlDepth(SubSeq(MethodBody, 1, j))
                /\ CountOpcodes(chunks, {25}) = CountIr(SubSeq(MethodBody, 1, j), "add")

\* ldc.i4.1; ldc.i4.2; add; ret has been lowered: one ADD HL,DE, and one
\* value more pushed than popped
C19_Witness ==
    /\ MethodGenerated
    /\ MethodBody = <<IrInstruction("ldc.i4.1", <<>>), IrInstruction("ldc.i4.2", <<>>),
                      IrInstruction("add", <<>>), IrInstruction("ret", <<>>)>>
    /\ CountOpcodes(emitter.code, {25}) = 1
    /\ CountOpcodes(emitter.code, PushOpcodes) - CountOpcodes(emitter.code, PopOpcodes) = 1

(***************************************************************************)
(* The size limit of the image.                                            *)
(***************************************************************************)
\* C20: build fails with RomTooLarge whenever len(code) + 0x0150 exceeds
\* 0x8000, and an image it returns never has more than 0x8000 bytes.
C20_RomTooLarge ==
    result.status # "none" =>
        /\ Len(code) + CODE_START > MIN_ROM_SIZE => result.status = "RomTooLarge"
        /\ BuiltOk => Len(result.image) <= MIN_ROM_SIZE

(***************************************************************************)
(* services/type_resolver.py: TypeResolver.                                *)
(*                                                                         *)
(* A type object of the assembly is a record with its full name, its       *)
(* is_array flag and element type, its declared fields and its             *)
(* is_value_type flag; a field refers to its type by full name, and        *)
(* type_defs maps a full name to the type object.                          *)
(***************************************************************************)
PRIMITIVE_SIZES ==
    [n \in {"System.Byte", "System.SByte", "System.Boolean", "System.Int16",
            "System.UInt16", "System.Int32", "System.UInt32", "System.IntPtr",
            "System.UIntPtr"} |->
        CASE n \in {"System.Byte", "System.SByte", "System.Boolean"} -> 1
          [] n \in {"System.Int16", "System.UInt16", "System.IntPtr",
                    "System.UIntPtr"} -> 2
          [] OTHER -> 4]

\* a field of a type: its name, the full name of its type, its is_literal flag
CsField(name, type, is_literal) ==
    [name |-> name, type |-> type, is_literal |-> is_literal]

CsType(fullname, is_array, element_type, fields, is_value_type) ==
    [fullname |-> fullname, is_array |-> is_array, element_type |-> element_type,
     fields |-> fields, is_value_type |-> is_value_type]

_get_type_name(csharp_type) == csharp_type.fullname

PrimitiveLayout(type_name) ==
    [name |-> type_name, size |-> PRIMITIVE_SIZES[type_name],
     alignment |-> PRIMITIVE_SIZES[type_name], is_primitive |-> TRUE,
     is_struct |-> FALSE, is_class |-> FALSE, fields |-> <<>>]

ArrayLayout(type_name, element_type) ==
    [name |-> type_name, size |-> 2, alignment |-> 2, is_primitive |-> FALSE,
     is_struct |-> FALSE, is_class |-> FALSE, is_array |-> TRUE,
     element_type |-> element_type, element_size |-> element_type.size]

FieldInfo(name, field_type, offset, field_size) ==
    [name |-> name, type |-> field_type, offset |-> offset, size |-> field_size]

CompositeLayout(type_name, size, is_value_type, fields) ==
    [name |-> type_name, size |-> size, alignment |-> 1, is_primitive |-> FALSE,
     is_struct |-> is_value_type, is_class |-> ~is_value_type, fields |-> fields]

\* a call that returned a layout, with the cache it leaves
Resolved(cache, layout) == [status |-> "ok", cache |-> cache, layout |-> layout]

\* a call that the interpreter ended when the call stack reached its limit;
\* the cache keeps the layouts stored before
RecursionError(cache) == [status |-> "RecursionError", cache |-> cache, layout |-> <<>>]

\* a layout that rounds each offset up to the alignment of the field's type
add_field_aligned(size, fields, field, field_type) ==
    LET offset == ((size + field_type.alignment - 1) \div field_type.alignment)
                      * field_type.alignment
    IN  [size   |-> offset + field_type.size,
         fields |-> Append(fields, FieldInfo(field.name, field_type, offset, field_type.size))]

\* the body of the loop for a non-constant field: the field is laid out at
\* the running size, which grows by the size of the field's type
add_field(size, fields, field, field_type) ==
    [size   |-> size + field_type.size,
     fields |-> Append(fields, FieldInfo(field.name, field_type, size, field_type.size))]

RECURSIVE resolve_type_at(_, _, _, _)
RECURSIVE resolve_fields(_, _, _, _, _, _, _)

\* the loop over csharp_type.fields from field k on, with the running size
\* and field list; depth counts the frames of resolve_type on the call stack
resolve_fields(cache, defs, declared, k, size, fields, depth) ==
    IF k > Len(declared) THEN [status |-> "ok", cache |-> cache, size |-> size, fields |-> fields]
    ELSE IF declared[k].is_literal
    THEN resolve_fields(cache, defs, declared, k + 1, size, fields, depth)
    ELSE LET field_type == resolve_type_at(cache, defs, defs[declared[k].type], depth + 1)
         IN  IF field_type.status # "ok"
             THEN [status |-> field_type.status, cache |-> field_type.cache,
                   size |-> size, fields |-> fields]
             ELSE LET added == add_field(size, fields, declared[k], field_type.layout)
                  IN  resolve_fields(field_type.cache, defs, declared, k + 1,
                                     added.size, added.fields, depth)

\* TypeResolver.resolve_type called in frame number depth of the call stack
resolve_type_at(cache, defs, csharp_type, depth) ==
    LET type_name == _get_type_name(csharp_type)
    IN  IF depth > RecursionLimit THEN RecursionError(cache)
        ELSE IF type_name \in DOMAIN cache THEN Resolved(cache, cache[type_name])
        ELSE IF type_name \in DOMAIN PRIMITIVE_SIZES
        THEN Resolved(dict_set(cache, type_name, PrimitiveLayout(type_name)),
                      PrimitiveLayout(type_name))
        ELSE IF csharp_type.is_array
        THEN LET element_type ==
                     resolve_type_at(cache, defs, defs[csharp_type.element_type], depth + 1)
                 layout == ArrayLayout(type_name, element_type.layout)
             IN  IF element_type.status # "ok" THEN RecursionError(element_type.cache)
                 ELSE Resolved(dict_set(element_type.cache, type_name, layout), layout)
        ELSE LET walked == resolve_fields(cache, defs, csharp_type.fields, 1, 0, <<>>, depth)
                 size   == IF walked.size = 0 THEN 1 ELSE walked.size
                 layout == CompositeLayout(type_name, size, csharp_type.is_value_type,
                                           walked.fields)
             IN  IF walked.status # "ok" THEN RecursionError(walked.cache)
                 ELSE Resolved(dict_set(walked.cache, type_name, layout), layout)

resolve_type(cache, defs, csharp_type) == resolve_type_at(cache, defs, csharp_type, 1)

(***************************************************************************)
(* TypeResolver.resolve_type queried on the types of one assembly.         *)
(***************************************************************************)
FieldName(i) == <<"f1", "f2", "f3", "f4", "f5", "f6">>[i]

\* the full names a declared field of A may have as its type
FieldTypes == {"System.Byte", "System.Int32", "A", "B"}

\* field lists of 0..MaxFields fields, named by their place in the declaration
DeclaredFields ==
    UNION {{[i \in 1..k |-> CsField(FieldName(i), ts[i], ls[i])] :
                ts \in [1..k -> FieldTypes], ls \in [1..k -> BOOLEAN]} :
           k \in 0..MaxFields}

\* B is empty, holds a constant only, is plain, or refers to A or to A[]
FieldsOfB ==
    {<<>>,
     <<CsField("f1", "System.Int32", TRUE)>>,
     <<CsField("f1", "System.Int16", FALSE), CsField("f2", "System.Byte", FALSE)>>,
     <<CsField("f1", "System.Int16", FALSE), CsField("f2", "A", FALSE)>>,
     <<CsField("f1", "A[]", FALSE)>>}

PrimitiveNames == {"System.Byte", "System.Int16", "System.Int32"}

TypeNames == PrimitiveNames \cup {"System.Byte[]", "A[]", "A", "B"}

\* class A with the fields fields_a, struct B with the fields fields_b,
\* their array types and the primitive types they use
TypesOf(fields_a, fields_b) ==
    [n \in TypeNames |->
        CASE n = "A" -> CsType("A", FALSE, None, fields_a, FALSE)
          [] n = "B" -> CsType("B", FALSE, None, fields_b, TRUE)
          [] n = "A[]" -> CsType("A[]", TRUE, "A", <<>>, FALSE)
          [] n = "System.Byte[]" -> CsType("System.Byte[]", TRUE, "System.Byte", <<>>, FALSE)
          [] OTHER -> CsType(n, FALSE, None, <<>>, TRUE)]

InitTypes ==
    /\ \E fields_a \in DeclaredFields, fields_b \in FieldsOfB :
           type_defs = TypesOf(fields_a, fields_b)
    /\ type_cache = EmptyDict
    /\ type_result = [type |-> "none", status |-> "none", layout |-> <<>>]
    /\ code = <<>>
    /\ config = EmptyConfig
    /\ result = NoResult
    /\ em_result = NoEmResult
    /\ emitter = InstructionEmitter
    /\ has_hello_world = FALSE
    /\ method_addresses = EmptyDict
    /\ ir_module = None
    /\ pc = "idle"
    /\ gen_calls = 0
    /\ first_run = NoRun
    /\ NoFrontEnd

\* one call of resolve_type on a type of the assembly
ResolveType ==
    /\ \E n \in {"A", "B", "A[]", "System.Int32"} :
           LET r == resolve_type(type_cache, type_defs, type_defs[n])
           IN  /\ type_cache' = r.cache
               /\ type_result' = [type |-> n, status |-> r.status, layout |-> r.layout]
    /\ UNCHANGED <<type_defs, rom_vars, emitter_vars, generator_vars, main_vars, front_vars>>

NextTypes == ResolveType

SpecTypes == InitTypes /\ [][NextTypes]_vars

(***************************************************************************)
(* Properties of the type resolver.                                        *)
(***************************************************************************)
IsComposite(n) == n \notin DOMAIN PRIMITIVE_SIZES /\ ~type_defs[n].is_array

NonConstant(fields) == SelectSeq(fields, LAMBDA f : ~f.is_literal)

RECURSIVE SumOfSizes(_)
SumOfSizes(fields) ==
    IF fields = <<>> THEN 0 ELSE Head(fields).size + SumOfSizes(Tail(fields))

\* the layout is the packed layout of the declared fields
PackedLayout(layout, declared) ==
    LET kept == NonConstant(declared)
        fields == layout.fields
    IN  /\ Len(fields) = Len(kept)
        /\ \A i \in 1..Len(fields) :
               /\ fields[i].name = kept[i].name
               /\ fields[i].type.name = kept[i].type
               /\ fields[i].size = fields[i].type.size
               /\ fields[i].offset =
                      (IF i = 1 THEN 0 ELSE fields[i - 1].offset + fields[i - 1].size)
               /\ fields[i].offset + fields[i].size <= layout.size
               /\ i > 1 => fields[i].offset > fields[i - 1].offset
        /\ layout.size = (IF fields = <<>> THEN 1 ELSE SumOfSizes(fields))

\* C21: every composite type that resolve_type has resolved has its
\* non-constant fields in declaration order, the first at offset 0 and each
\* next one at the previous offset plus the previous size; the offsets grow
\* strictly, each field ends within the type, the size of the type is the sum
\* of the field sizes, constant fields are absent, and a composite without a
\* non-constant field has size 1.
C21_PackedLayout ==
    /\ \A n \in DOMAIN type_cache :
           IsComposite(n) => PackedLayout(type_cache[n], type_defs[n].fields)
    /\ (type_result.status = "ok" /\ IsComposite(type_result.type)) =>
           PackedLayout(type_result.layout, type_defs[type_result.type].fields)

\* A was resolved with a constant field declared before two laid-out fields,
\* a byte at offset 0 and a 32-bit integer right behind it
C21_Witness ==
    /\ type_result.status = "ok"
    /\ type_result.type = "A"
    /\ Len(type_defs["A"].fields) = 3
    /\ type_defs["A"].fields[1].is_literal
    /\ Len(type_result.layout.fields) = 2
    /\ type_result.layout.fields[2].offset = 1
    /\ type_result.layout.fields[2].size = 4
    /\ type_result.layout.size = 5

\* C22: every query of resolve_type returns a layout, also for a type that
\* has a field of its own type, directly or through other composites or
\* array element types; and the layout returned for a name is the one the
\* cache holds for it from then on.
C22_ResolveTerminates ==
    /\ type_result.status # "RecursionError"
    /\ type_result.status = "ok" =>
           /\ type_result.type \in DOMAIN type_cache
           /\ type_cache[type_result.type] = type_result.layout

(***************************************************************************)
(* services/ir_builder.py: IrBuilder.build, the loop over the MethodDef    *)
(* rows.  module.methods is a dict in insertion order: a sequence of       *)
(* <<key, value>> pairs with distinct keys.                                *)
(***************************************************************************)
\* a list that keeps every method appended to it, whatever its name
methods_append(methods, key, value) == Append(methods, <<key, value>>)

\* methods[key] = value: a new key goes to the end, a key the dict holds
\* keeps its place and takes the new value
methods_set(methods, key, value) ==
    IF \E k \in 1..Len(methods) : methods[k][1] = key
    THEN [k \in 1..Len(methods) |->
              IF methods[k][1] = key THEN <<key, value>> ELSE methods[k]]
    ELSE Append(methods, <<key, value>>)

_get_method_name(row) == row.Name

_get_method_full_name(row) == row.Name

\* the IrMethod the loop body makes of one row: the body is read and, when
\* it is not empty, decoded into one block
build_method(data, row) ==
    LET method_name == _get_method_name(row)
        body        == get_method_body(data, row)
        method      == IrMethod(method_name, _get_method_full_name(row), <<>>,
                                method_name = "Main")
    IN  IF body.status = "bytes" /\ body.body # <<>>
        THEN _parse_il_body(method, body.body).ir_method
        ELSE method

RECURSIVE build_methods(_, _, _)
\* the loop over the rows, from the module built so far
build_methods(data, rows, module) ==
    IF rows = <<>> THEN module
    ELSE LET row == Head(rows)
         IN  IF _get_method_name(row) \in StartsWithDot
             THEN build_methods(data, Tail(rows), module)
             ELSE build_methods(data, Tail(rows),
                      IrModule(methods_set(module.methods, _get_method_full_name(row),
                                           build_method(data, row)),
                               IF _get_method_name(row) = "Main"
                               THEN _get_method_full_name(row)
                               ELSE module.entry_point))

\* IrBuilder.build(assembly): the methods and the entry point of the module
ir_builder_build(data, rows) == build_methods(data, rows, IrModule(<<>>, None))

(***************************************************************************)
(* IrBuilder.build on the method table of one assembly.                    *)
(***************************************************************************)
\* one method body, ldc.i4.1; ldc.i4.2; add; ret behind a tiny header, at
\* file offset 1
BuildData == AssemblyOf(TinyHeader(4), IlS5)

\* rows named Main, Foo or .ctor, each with the body or with an Rva of 0
BuildRows ==
    {MethodDef(name, rva, 1) : name \in {"Main", "Foo", ".ctor"}, rva \in {0, 8272}}

InitBuild ==
    /\ assembly_data = BuildData
    /\ method_rows \in SeqsUpTo(BuildRows, MaxMethods)
    /\ method_def = None
    /\ il_body = [status |-> "none", body |-> <<>>]
    /\ il_cursor = 0
    /\ ir_method = None
    /\ code = <<>>
    /\ config = EmptyConfig
    /\ result = NoResult
    /\ em_result = NoEmResult
    /\ NewGenerator
    /\ NoTypes

\* ir_module = ir_builder.build(assembly)
IrBuild ==
    /\ pc = "idle"
    /\ ir_module' = ir_builder_build(assembly_data, method_rows)
    /\ pc' = "built"
    /\ UNCHANGED <<rom_vars, emitter_vars, has_hello_world, method_addresses, gen_calls,
                   first_run, front_vars, type_vars>>

NextBuild == IrBuild

SpecBuild == InitBuild /\ [][NextBuild]_vars

(***************************************************************************)
(* Properties of the module IrBuilder.build returns.                       *)
(***************************************************************************)
Built == pc = "built"

\* the places of module.methods whose method has the entry-point flag set
FlaggedMethods == {k \in 1..Len(ir_module.methods) : ir_module.methods[k][2].is_entry_point}

\* the rows the loop does not skip
DecodedRows == SelectSeq(method_rows, LAMBDA row : row.Name \notin StartsWithDot)

\* C23: in the module IrBuilder.build returns, whatever the MethodDef rows
\* (several rows named Main, rows sharing a name), at most one method has the
\* entry-point flag; entry_point is set exactly when some decoded row is
\* named Main; it is then a key of module.methods, and the method under that
\* key is the one with the flag.
C23_OneEntryPoint ==
    Built =>
        /\ Cardinality(FlaggedMethods) <= 1
        /\ (ir_module.entry_point # None)
               <=> (\E k \in 1..Len(DecodedRows) : DecodedRows[k].Name = "Main")
        /\ ir_module.entry_point # None =>
               /\ \E k \in 1..Len(ir_module.methods) :
                      ir_module.methods[k][1] = ir_module.entry_point
               /\ \A k \in 1..Len(ir_module.methods) :
                      (ir_module.methods[k][1] = ir_module.entry_point)
                          <=> k \in FlaggedMethods
        /\ ir_module.entry_point = None => FlaggedMethods = {}

\* a module built from two rows named Main with different bodies and a row
\* named Foo between them
C23_Witness ==
    /\ Built
    /\ Len(method_rows) = 3
    /\ method_rows[1].Name = "Main"
    /\ method_rows[2].Name = "Foo"
    /\ method_rows[3].Name = "Main"
    /\ method_rows[1].Rva # method_rows[3].Rva
    /\ ir_module.entry_point = "Main"
    /\ Len(ir_module.methods) = 2

(***************************************************************************)
(* The return opcode that ends a method.                                   *)
(***************************************************************************)
EndsWithRet(instructions) ==
    instructions # <<>> /\ lower(instructions[Len(instructions)].opcode) = "ret"

\* C24: the code of a method ends with one RET (C9): when the last IR
\* instruction of the method is ret, the chunks emitted are those of its
\* instructions and nothing is appended; otherwise exactly one RET chunk is
\* appended to them.
C24_SingleReturn ==
    MethodGenerated =>
        LET lowered == LoweredChunks(Len(MethodBody))
        IN  /\ emitter.code[Len(emitter.code)] = <<201>>
            /\ IF EndsWithRet(MethodBody)
               THEN emitter.code = lowered
               ELSE emitter.code = Append(lowered, <<201>>)

(***************************************************************************)
(* The jump to the entry point that ends the generated code.               *)
(***************************************************************************)
\* the last n bytes of a byte string that has at least n bytes
Suffix(bytes, n) == SubSeq(bytes, Len(bytes) - n + 1, Len(bytes))

HasEntryPoint == ir_module.entry_point # None

\* C25: when the module designates an entry point, the code generate returns
\* ends with JP a16 (C3 lo hi), placed after the code of every method, whose
\* operand is the address the method-address map records for the entry-point
\* method; when it designates none, the code ends with the RET of the last
\* method or is the startup stub alone.
C25_EntryJumpLast ==
    Generated =>
        IF HasEntryPoint
        THEN /\ Len(code) >= 3
             /\ ir_module.entry_point \in DOMAIN method_addresses
             /\ Suffix(code, 3) =
                    <<195, And_0xFF(method_addresses[ir_module.entry_point]),
                      And_0xFF(ShiftRight(method_addresses[ir_module.entry_point], 8))>>
             /\ \A name \in DOMAIN method_addresses :
                    method_addresses[name] < Len(code) - 3
        ELSE \/ code = StartupStub
             \/ code[Len(code)] = 201

(***************************************************************************)
(* CodeGenerator._generate_method on methods with constants, arithmetic    *)
(* and branches.                                                           *)
(***************************************************************************)
ShortBranches == {"br.s", "brfalse.s", "brtrue.s", "beq.s", "bge.s", "bgt.s", "ble.s", "blt.s"}

LongBranches == {"br", "brfalse", "brtrue"}

\* every ldc.i4 form, with operands at the edges of 8, 16 and 32 bits
ConstantForms ==
    {IrInstruction(op, <<>>) : op \in StartsWithLdcI4 \ {"ldc.i4.s", "ldc.i4"}}
    \cup {IrInstruction("ldc.i4.s", <<v>>) : v \in {-128, -1, 127, 255}}
    \cup {IrInstruction("ldc.i4", <<v>>) :
              v \in {-2147483647, -70000, -32769, -1, 256, 65535, 65536, 2147483647}}

BranchForms ==
    {IrInstruction(op, <<2>>) : op \in ShortBranches}
    \cup {IrInstruction(op, <<-3>>) : op \in {"br.s", "blt.s"}}
    \cup {IrInstruction(op, <<200>>) : op \in LongBranches}

LowerPool ==
    ConstantForms \cup BranchForms
    \cup {IrInstruction(op, <<>>) : op \in {"mul", "div", "add", "ret"}}

LowerMethods ==
    {IrMethod("Foo", "Foo", <<IrBasicBlock("entry", body)>>, FALSE) :
         body \in SeqsUpTo(LowerPool, MaxLowerLen)}

InitLower ==
    /\ ir_method \in LowerMethods
    /\ method_rows = <<>>
    /\ assembly_data = <<>>
    /\ method_def = None
    /\ il_body = [status |-> "none", body |-> <<>>]
    /\ il_cursor = 0
    /\ code = <<>>
    /\ config = EmptyConfig
    /\ result = NoResult
    /\ em_result = NoEmResult
    /\ NewGenerator
    /\ NoTypes

NextLower == GenerateMethod

SpecLower == InitLower /\ [][NextLower]_vars

(***************************************************************************)
(* Properties of the lowering of single instructions.                      *)
(***************************************************************************)
\* the chunks emitted for instruction j of the method
ChunksOf(j) ==
    SubSeq(LoweredChunks(j), Len(LoweredChunks(j - 1)) + 1, Len(LoweredChunks(j)))

\* C26: an IR mul is lowered to CALL a16 (CD lo hi) to the entry address of
\* mul16 and an IR div to a call to the entry address of div16; neither is
\* lowered to a no-op.
C26_MulDivCallHelper ==
    MethodGenerated =>
        \A j \in 1..Len(MethodBody) :
            /\ MethodBody[j].opcode = "mul" =>
                   Flatten(ChunksOf(j))
                       = <<205, And_0xFF(MUL_16_ADDR), And_0xFF(ShiftRight(MUL_16_ADDR, 8))>>
            /\ MethodBody[j].opcode = "div" =>
                   Flatten(ChunksOf(j))
                       = <<205, And_0xFF(DIV_16_ADDR), And_0xFF(ShiftRight(DIV_16_ADDR, 8))>>

\* JR r8, JR cc,r8, JP a16 and JP cc,a16
JumpOpcodes == {24, 32, 40, 48, 56, 195, 194, 202, 210, 218}

IsBranch(inst) == inst.opcode \in ShortBranches \cup LongBranches

BranchCount(instructions) ==
    Cardinality({k \in 1..Len(instructions) : IsBranch(instructions[k])})

\* C27: every branch of a method is lowered to a jump instruction and
\* queues one relocation against a label, so that a short branch whose
\* target is out of the range of a signed byte is met at finalization.
C27_BranchRelocation ==
    MethodGenerated =>
        /\ \A j \in 1..Len(MethodBody) :
               IsBranch(MethodBody[j]) =>
                   /\ ChunksOf(j) # <<>>
                   /\ ChunksOf(j)[1][1] \in JumpOpcodes
        /\ Len(emitter.label_refs) = BranchCount(MethodBody)

\* the constant an ldc.i4 form loads: fixed by the opcode, or its operand
LdcConstant(inst) ==
    CASE inst.opcode = "ldc.i4.m1" -> -1
      [] inst.opcode \in {"ldc.i4.s", "ldc.i4"} -> inst.operands[1]
      [] OTHER -> CHOOSE v \in 0..8 :
                      inst.opcode = <<"ldc.i4.0", "ldc.i4.1", "ldc.i4.2", "ldc.i4.3",
                                      "ldc.i4.4", "ldc.i4.5", "ldc.i4.6", "ldc.i4.7",
                                      "ldc.i4.8">>[v + 1]

\* C28: every ldc.i4 form with the constant v is lowered to the four bytes
\* 21, v mod 256, (v div 256) mod 256, E5: LD HL with the 16-bit two's
\* complement of v, then PUSH HL; each byte lies in 0..255.
C28_LoadConstant ==
    MethodGenerated =>
        \A j \in 1..Len(MethodBody) :
            MethodBody[j].opcode \in StartsWithLdcI4 =>
                LET v == LdcConstant(MethodBody[j])
                    bytes == Flatten(ChunksOf(j))
                IN  /\ bytes = <<33, v % 256, (v \div 256) % 256, 229>>
                    /\ bytes[2] + 256 * bytes[3] = v % 65536
                    /\ \A k \in 1..4 : bytes[k] \in Byte

\* ldc.i4 -70000 and ldc.i4.m1 have been lowered: 21 90 EE E5 21 FF FF E5
C28_Witness ==
    /\ MethodGenerated
    /\ Len(MethodBody) = 2
    /\ MethodBody[1] = IrInstruction("ldc.i4", <<-70000>>)
    /\ MethodBody[2] = IrInstruction("ldc.i4.m1", <<>>)
    /\ SubSeq(Flatten(emitter.code), 1, 8) = <<33, 144, 238, 229, 33, 255, 255, 229>>

(***************************************************************************)
(* Compilations that share one CodeGenerator, and the target of the        *)
(* entry-point jump in the image.                                          *)
(***************************************************************************)
HasMain(ir_mod) ==
    \E k \in 1..Len(ir_mod.methods) :
        ir_mod.methods[k][2].is_entry_point \/ ir_mod.methods[k][2].name = "Main"

\* C29: generate carries nothing from one call to the next: the code it
\* returns for a module is the code a new generator returns for the same
\* module, whatever was generated before; a module without Main gets the
\* generic lowering, startup stub first, also after a module with Main.
C29_NoCarryOver ==
    Generated =>
        LET fresh == generate(FALSE, ir_module)
        IN  /\ fresh.code.status = "ok"
            /\ code = fresh.code.code
            /\ ~HasMain(ir_module) => Prefix(code, 4) = StartupStub

\* the operand of the JP a16 that ends the code
JumpOperand == code[Len(code) - 1] + 256 * code[Len(code)]

\* the generic lowering has ended the code with the jump to the entry point
EndsWithEntryJump ==
    /\ Generated
    /\ HasEntryPoint
    /\ ir_module.entry_point \in DOMAIN method_addresses
    /\ Len(code) >= 3
    /\ code[Len(code) - 2] = 195

\* C30: the operand of the trailing entry-point jump is the image address of
\* the first byte of the entry-point method: 0x0150, where build copies the
\* code, plus the offset of the method in the code; it is never below
\* 0x0150.
C30_EntryJumpAddress ==
    EndsWithEntryJump =>
        /\ JumpOperand = CODE_START + method_addresses[ir_module.entry_point]
        /\ JumpOperand >= CODE_START

====
